---- MODULE Spec2Model ----
(***************************************************************************)
(* Detection rule engine (backend/detection/rule_engine.py): the safe      *)
(* AST evaluator SafeEvaluator, eval_condition and evaluate_rules.         *)
(*                                                                         *)
(* A condition string is represented by what ast.parse makes of it: either *)
(* a syntax error or the expression tree of the string.  Runtime values    *)
(* are tagged records, so that Python's dynamic typing (truthiness,        *)
(* equality across types, TypeError on ordering) is computed, not assumed. *)
(***************************************************************************)
EXTENDS Integers, Sequences, FiniteSets, TLC

(***************************************************************************)
(* Bounds of the model.                                                    *)
(***************************************************************************)
MaxRules == 2
MaxOperands == 2
MaxArgs == 2
MaxCalls == 2

(***************************************************************************)
(* Python runtime values.                                                  *)
(*   t     : "none" | "bool" | "int" | "float" | "str" | "list" | "set"     *)
(*   n / d : the number n/d (d = 1 for bool and int)                        *)
(*   s     : the text of a str                                             *)
(*   items : the elements of a list, in order                              *)
(*   elems : the elements of a set                                         *)
(***************************************************************************)
NoneV == [t |-> "none", n |-> 0, d |-> 1, s |-> "", items |-> <<>>, elems |-> {}]
BoolV(b) == [t |-> "bool", n |-> IF b THEN 1 ELSE 0, d |-> 1, s |-> "",
             items |-> <<>>, elems |-> {}]
IntV(i) == [t |-> "int", n |-> i, d |-> 1, s |-> "", items |-> <<>>, elems |-> {}]
StrV(x) == [t |-> "str", n |-> 0, d |-> 1, s |-> x, items |-> <<>>, elems |-> {}]
ListV(xs) == [t |-> "list", n |-> 0, d |-> 1, s |-> "", items |-> xs, elems |-> {}]

RECURSIVE Gcd(_, _)
Gcd(a, b) == IF b = 0 THEN a ELSE Gcd(b, a % b)

Abs(i) == IF i < 0 THEN -i ELSE i

\* The float n/d, kept in lowest terms with a positive denominator.
FloatV(num, den) ==
    LET g == Gcd(Abs(num), Abs(den))
        sg == IF den < 0 THEN -1 ELSE 1
    IN [t |-> "float", n |-> (sg * num) \div g, d |-> (sg * den) \div g, s |-> "",
        items |-> <<>>, elems |-> {}]

IsNumber(v) == v.t \in {"bool", "int", "float"}

\* Python hashes 1, True and 1.0 alike: a set keeps one of them.
HashKey(v) == IF IsNumber(v) /\ v.d = 1 THEN IntV(v.n) ELSE v

SetV(S) == [t |-> "set", n |-> 0, d |-> 1, s |-> "", items |-> <<>>,
            elems |-> {HashKey(v) : v \in S}]

Range(seq) == {seq[i] : i \in 1..Len(seq)}

\* bool(v)
Truthy(v) ==
    CASE v.t = "none" -> FALSE
      [] IsNumber(v) -> v.n # 0
      [] v.t = "str" -> v.s # ""
      [] v.t = "list" -> v.items # <<>>
      [] v.t = "set" -> v.elems # {}

\* Code-point order of the strings the model uses (Python compares str so).
StrOrder == <<"", "A", "APAC", "C", "E", "EU", "P", "S", "U", "US", "a", "b", "c", "d">>
StrRank(x) == CHOOSE i \in 1..Len(StrOrder) : StrOrder[i] = x

\* a == b on scalars and collections of scalars.
RECURSIVE PyEq(_, _)
PyEq(a, b) ==
    CASE IsNumber(a) /\ IsNumber(b) -> a.n * b.d = b.n * a.d
      [] a.t = "str" /\ b.t = "str" -> a.s = b.s
      [] a.t = "none" /\ b.t = "none" -> TRUE
      [] a.t = "list" /\ b.t = "list" ->
            /\ Len(a.items) = Len(b.items)
            /\ \A i \in 1..Len(a.items) : PyEq(a.items[i], b.items[i])
      [] a.t = "set" /\ b.t = "set" -> a.elems = b.elems
      [] OTHER -> FALSE

\* Whether a < b is defined (otherwise the operator raises TypeError).
RECURSIVE Orderable(_, _)
Orderable(a, b) ==
    CASE IsNumber(a) /\ IsNumber(b) -> TRUE
      [] a.t = "str" /\ b.t = "str" -> TRUE
      [] a.t = "set" /\ b.t = "set" -> TRUE
      [] a.t = "list" /\ b.t = "list" ->
            \* list comparison orders the first pair of unequal elements
            LET diff == {i \in 1..Len(a.items) :
                           i <= Len(b.items) /\ ~PyEq(a.items[i], b.items[i])}
            IN diff = {} \/
               (LET k == CHOOSE i \in diff : \A j \in diff : i <= j
                IN Orderable(a.items[k], b.items[k]))
      [] OTHER -> FALSE

\* a < b, for Orderable(a, b).
RECURSIVE PyLt(_, _)
PyLt(a, b) ==
    CASE IsNumber(a) /\ IsNumber(b) -> a.n * b.d < b.n * a.d
      [] a.t = "str" /\ b.t = "str" -> StrRank(a.s) < StrRank(b.s)
      [] a.t = "set" /\ b.t = "set" -> a.elems \subseteq b.elems /\ a.elems # b.elems
      [] a.t = "list" /\ b.t = "list" ->
            LET diff == {i \in 1..Len(a.items) :
                           i <= Len(b.items) /\ ~PyEq(a.items[i], b.items[i])}
            IN IF diff = {} THEN Len(a.items) < Len(b.items)
               ELSE LET k == CHOOSE i \in diff : \A j \in diff : i <= j
                    IN PyLt(a.items[k], b.items[k])
      [] OTHER -> FALSE

\* a <= b, for Orderable(a, b): sets order by inclusion, the rest totally.
PyLe(a, b) ==
    IF a.t = "set" /\ b.t = "set" THEN a.elems \subseteq b.elems
    ELSE PyLt(a, b) \/ PyEq(a, b)

(***************************************************************************)
(* Outcomes of evaluating a node: a value, or a raised exception.  log is  *)
(* the sequence of context lookups and function invocations performed, in  *)
(* order, up to the return or the raise.                                   *)
(***************************************************************************)
Ok(v, log) == [st |-> "ok", exc |-> "", msg |-> "", val |-> v, log |-> log]
Raise(exc, msg, log) == [st |-> "err", exc |-> exc, msg |-> msg, val |-> NoneV, log |-> log]

Lookup(id) == [ev |-> "lookup", name |-> id, src |-> "context"]
Invoke(id, src) == [ev |-> "invoke", name |-> id, src |-> src]

(***************************************************************************)
(* Iteration, as set(...), min(...) and max(...) perform it.               *)
(***************************************************************************)
\* The characters of the strings the model uses, in order.
Chars(x) ==
    CASE x = "" -> <<>>
      [] x = "EU" -> <<"E", "U">>
      [] x = "US" -> <<"U", "S">>
      [] x = "APAC" -> <<"A", "P", "A", "C">>
      [] OTHER -> <<x>>

Iterable(v) == v.t \in {"str", "list", "set"}
Hashable(v) == v.t \notin {"list", "set"}

RECURSIVE SetToSeq(_)
SetToSeq(S) ==
    IF S = {} THEN <<>>
    ELSE LET x == CHOOSE y \in S : TRUE IN <<x>> \o SetToSeq(S \ {x})

\* The elements iter(v) yields, for Iterable(v).
IterSeq(v) ==
    CASE v.t = "list" -> v.items
      [] v.t = "str" -> [i \in 1..Len(Chars(v.s)) |-> StrV(Chars(v.s)[i])]
      [] v.t = "set" -> SetToSeq(v.elems)

\* set(v): TypeError when v is not iterable or holds an unhashable element.
CanSet(v) == Iterable(v) /\ \A e \in Range(IterSeq(v)) : Hashable(e)
ToSet(v) == {HashKey(e) : e \in Range(IterSeq(v))}
\* The message of the TypeError of set(v), for ~CanSet(v).
SetError(v) == IF ~Iterable(v) THEN "object is not iterable" ELSE "unhashable type"

(***************************************************************************)
(* FUNCS: the registry of whitelisted functions.                           *)
(***************************************************************************)
FUNCS == {"jaccard_distance", "in_set", "not_in_set", "len", "abs", "min", "max"}

\* Mutant: the denominator is the size of the union, without "or 1".
jaccard_distance_no_guard(args) ==
    IF Len(args) # 2 THEN Raise("TypeError", "arguments", <<>>)
    ELSE IF ~CanSet(args[1]) \/ ~CanSet(args[2])
         THEN Raise("TypeError", "set", <<>>)
         ELSE IF ToSet(args[1]) \cup ToSet(args[2]) = {}
              THEN Raise("ZeroDivisionError", "division by zero", <<>>)
              ELSE Ok(FloatV(Cardinality(ToSet(args[1]) \cup ToSet(args[2]))
                                - Cardinality(ToSet(args[1]) \cap ToSet(args[2])),
                             Cardinality(ToSet(args[1]) \cup ToSet(args[2]))), <<>>)

\* lambda a, b: 1 - (len(set(a) & set(b)) / (len(set(a) | set(b)) or 1))
jaccard_distance(args) ==
    IF Len(args) # 2 THEN Raise("TypeError", "arguments", <<>>)
    ELSE IF ~CanSet(args[1]) \/ ~CanSet(args[2])
         THEN Raise("TypeError", "set", <<>>)
         ELSE LET A == ToSet(args[1])
                  B == ToSet(args[2])
                  inter == Cardinality(A \cap B)
                  union == Cardinality(A \cup B)
                  denom == IF union # 0 THEN union ELSE 1
              IN Ok(FloatV(denom - inter, denom), <<>>)

\* Mutant: membership is tested in s itself (x in s), so in a string s it is a
\* substring test.
in_set_without_set(args) ==
    IF Len(args) # 2 THEN Raise("TypeError", "arguments", <<>>)
    ELSE IF args[2].t = "str"
         THEN IF args[1].t # "str" THEN Raise("TypeError", "in <string>", <<>>)
              ELSE Ok(BoolV(\/ args[1].s \in {"", args[2].s}
                            \/ args[1].s \in Range(Chars(args[2].s))), <<>>)
         ELSE IF ~CanSet(args[2]) \/ args[1].t = "list"
              THEN Raise("TypeError", "set", <<>>)
              ELSE Ok(BoolV(HashKey(args[1]) \in ToSet(args[2])), <<>>)

\* lambda x, s: x in set(s).  A list x is unhashable (TypeError); a set x is
\* looked up by its value, and no element of set(s) is a set.
in_set(args) ==
    IF Len(args) # 2 THEN Raise("TypeError", "arguments", <<>>)
    ELSE IF ~CanSet(args[2]) \/ args[1].t = "list"
         THEN Raise("TypeError", "set", <<>>)
         ELSE Ok(BoolV(HashKey(args[1]) \in ToSet(args[2])), <<>>)

\* lambda x, s: x not in set(s)
not_in_set(args) ==
    IF Len(args) # 2 THEN Raise("TypeError", "arguments", <<>>)
    ELSE IF ~CanSet(args[2]) \/ args[1].t = "list"
         THEN Raise("TypeError", "set", <<>>)
         ELSE Ok(BoolV(HashKey(args[1]) \notin ToSet(args[2])), <<>>)

\* lambda x: len(x)
len(args) ==
    IF Len(args) # 1 THEN Raise("TypeError", "arguments", <<>>)
    ELSE IF ~Iterable(args[1]) THEN Raise("TypeError", "len", <<>>)
         ELSE IF args[1].t = "set" THEN Ok(IntV(Cardinality(args[1].elems)), <<>>)
              ELSE Ok(IntV(Len(IterSeq(args[1]))), <<>>)

\* abs
abs(args) ==
    IF Len(args) # 1 THEN Raise("TypeError", "arguments", <<>>)
    ELSE IF ~IsNumber(args[1]) THEN Raise("TypeError", "abs", <<>>)
         ELSE IF args[1].t = "float" THEN Ok(FloatV(Abs(args[1].n), args[1].d), <<>>)
              ELSE Ok(IntV(Abs(args[1].n)), <<>>)

\* min / max keep the first extreme element, comparing each next element with it.
RECURSIVE Extreme(_, _, _, _)
Extreme(xs, i, cur, wantMax) ==
    IF i > Len(xs) THEN Ok(cur, <<>>)
    ELSE IF ~Orderable(xs[i], cur) THEN Raise("TypeError", "compare", <<>>)
         ELSE LET better == IF wantMax THEN PyLt(cur, xs[i]) ELSE PyLt(xs[i], cur)
              IN Extreme(xs, i + 1, IF better THEN xs[i] ELSE cur, wantMax)

MinMax(args, wantMax) ==
    IF Len(args) = 0 THEN Raise("TypeError", "arguments", <<>>)
    ELSE IF Len(args) = 1 /\ ~Iterable(args[1]) THEN Raise("TypeError", "iterable", <<>>)
         ELSE LET xs == IF Len(args) = 1 THEN IterSeq(args[1]) ELSE args
              IN IF xs = <<>> THEN Raise("ValueError", "empty sequence", <<>>)
                 ELSE Extreme(xs, 2, xs[1], wantMax)

min(args) == MinMax(args, FALSE)
max(args) == MinMax(args, TRUE)

\* fn(*args) for fn = FUNCS[name]
CallFunc(name, args) ==
    CASE name = "jaccard_distance" -> jaccard_distance(args)
      [] name = "in_set" -> in_set(args)
      [] name = "not_in_set" -> not_in_set(args)
      [] name = "len" -> len(args)
      [] name = "abs" -> abs(args)
      [] name = "min" -> min(args)
      [] name = "max" -> max(args)

(***************************************************************************)
(* Expression trees, as ast.parse builds them.  A node is                  *)
(*   k    : the ast class name                                             *)
(*   id   : Name.id, Attribute.attr, or the callee's name of a Call whose  *)
(*          func is an ast.Name ("" when the callee is not a plain name)   *)
(*   ops  : the operator class names (BoolOp.op, Compare.ops, BinOp.op,    *)
(*          UnaryOp.op)                                                    *)
(*   val  : Constant.value                                                 *)
(*   args : the child expressions, in the order of the class's _fields     *)
(* Operator and expression-context children (And(), Load()) have no fields *)
(* and no visitor: visiting them does nothing, so they are left out.       *)
(***************************************************************************)
Node(k, id, ops, val, args) == [k |-> k, id |-> id, ops |-> ops, val |-> val, args |-> args]

Name(id) == Node("Name", id, <<>>, NoneV, <<>>)
Constant(v) == Node("Constant", "", <<>>, v, <<>>)
BoolOp(op, values) == Node("BoolOp", "", <<op>>, NoneV, values)
Compare(left, ops, comparators) == Node("Compare", "", ops, NoneV, <<left>> \o comparators)
Call(func, args) == Node("Call", func, <<>>, NoneV, args)
List(elts) == Node("List", "", <<>>, NoneV, elts)
SetLit(elts) == Node("Set", "", <<>>, NoneV, elts)
BinOp(left, op, right) == Node("BinOp", "", <<op>>, NoneV, <<left, right>>)
Attribute(value, attr) == Node("Attribute", attr, <<>>, NoneV, <<value>>)
UnaryOp(op, operand) == Node("UnaryOp", "", <<op>>, NoneV, <<operand>>)
Subscript(value, slice) == Node("Subscript", "", <<>>, NoneV, <<value, slice>>)
IfExp(test, body, orelse) == Node("IfExp", "", <<>>, NoneV, <<test, body, orelse>>)
Lambda(body) == Node("Lambda", "", <<>>, NoneV, <<body>>)
ListComp(elt, target, iter) == Node("ListComp", "", <<>>, NoneV, <<elt, target, iter>>)
Expression(body) == Node("Expression", "", <<>>, NoneV, <<body>>)

\* The classes SafeEvaluator defines a visit_<class> method for.
VisitorMethods ==
    {"Module", "BoolOp", "Compare", "Call", "Name", "Constant", "List", "Set", "BinOp"}

(***************************************************************************)
(* SafeEvaluator.  visit(node) is ast.NodeVisitor.visit: it calls          *)
(* visit_<class> when the evaluator defines it and generic_visit           *)
(* otherwise.  The context is a function from names to values.             *)
(***************************************************************************)
RECURSIVE visit(_, _), visit_each(_, _, _), generic_visit(_, _),
          visit_Module(_, _), visit_BoolOp(_, _), visit_Compare(_, _),
          visit_Call(_, _), visit_List(_, _), visit_Set(_, _), visit_BinOp(_, _)

\* [self.visit(n) for n in nodes], from position i on: the values in order, or
\* the first exception raised.
visit_each(nodes, i, ctx) ==
    IF i > Len(nodes) THEN [st |-> "ok", exc |-> "", msg |-> "", vals |-> <<>>, log |-> <<>>]
    ELSE LET r == visit(nodes[i], ctx)
         IN IF r.st = "err"
            THEN [st |-> "err", exc |-> r.exc, msg |-> r.msg, vals |-> <<>>, log |-> r.log]
            ELSE LET rest == visit_each(nodes, i + 1, ctx)
                 IN [rest EXCEPT !.vals = <<r.val>> \o @, !.log = r.log \o @]

\* ast.NodeVisitor.generic_visit: visits every child and returns None.
generic_visit(node, ctx) ==
    LET rs == visit_each(node.args, 1, ctx)
    IN IF rs.st = "err" THEN Raise(rs.exc, rs.msg, rs.log) ELSE Ok(NoneV, rs.log)

\* return self.visit(node.body[0].value)
visit_Module(node, ctx) == visit(node.args[1].args[1], ctx)

\* Mutant: "and" / "or" short-circuit, as Python's own operators do.
RECURSIVE ShortCircuit(_, _, _, _)
ShortCircuit(node, i, ctx, log) ==
    IF visit(node.args[i], ctx).st = "err"
    THEN Raise(visit(node.args[i], ctx).exc, visit(node.args[i], ctx).msg,
               log \o visit(node.args[i], ctx).log)
    ELSE IF i = Len(node.args)
            \/ Truthy(visit(node.args[i], ctx).val) = (node.ops[1] = "Or")
         THEN Ok(BoolV(Truthy(visit(node.args[i], ctx).val)),
                 log \o visit(node.args[i], ctx).log)
         ELSE ShortCircuit(node, i + 1, ctx, log \o visit(node.args[i], ctx).log)

visit_BoolOp_short_circuit(node, ctx) == ShortCircuit(node, 1, ctx, <<>>)

visit_BoolOp(node, ctx) ==
    LET rs == visit_each(node.args, 1, ctx)
    IN IF rs.st = "err" THEN Raise(rs.exc, rs.msg, rs.log)
       ELSE CASE node.ops[1] = "And" ->
                   Ok(BoolV(\A i \in 1..Len(rs.vals) : Truthy(rs.vals[i])), rs.log)
              [] node.ops[1] = "Or" ->
                   Ok(BoolV(\E i \in 1..Len(rs.vals) : Truthy(rs.vals[i])), rs.log)
              [] OTHER -> Raise("ValueError", "Boolean operation not allowed", rs.log)

\* Mutant: the OPS table maps ast.GtE to operator.gt.
CompareOp_GtE_as_Gt(op, a, b, log) ==
    CASE op = "Eq" -> Ok(BoolV(PyEq(a, b)), log)
      [] op = "NotEq" -> Ok(BoolV(~PyEq(a, b)), log)
      [] ~Orderable(a, b) -> Raise("TypeError", "not supported between instances", log)
      [] op = "Gt" -> Ok(BoolV(PyLt(b, a)), log)
      [] op = "GtE" -> Ok(BoolV(PyLt(b, a)), log)
      [] op = "Lt" -> Ok(BoolV(PyLt(a, b)), log)
      [] op = "LtE" -> Ok(BoolV(PyLe(a, b)), log)

\* OPS[type(op)](left, right)
CompareOp(op, a, b, log) ==
    CASE op = "Eq" -> Ok(BoolV(PyEq(a, b)), log)
      [] op = "NotEq" -> Ok(BoolV(~PyEq(a, b)), log)
      [] ~Orderable(a, b) -> Raise("TypeError", "not supported between instances", log)
      [] op = "Gt" -> Ok(BoolV(PyLt(b, a)), log)
      [] op = "GtE" -> Ok(BoolV(PyLe(b, a)), log)
      [] op = "Lt" -> Ok(BoolV(PyLt(a, b)), log)
      [] op = "LtE" -> Ok(BoolV(PyLe(a, b)), log)

allowed_ops == {"Gt", "GtE", "Lt", "LtE", "Eq", "NotEq"}

visit_Compare(node, ctx) ==
    LET rs == visit_each(node.args, 1, ctx)     \* left, then the comparators
    IN IF rs.st = "err" THEN Raise(rs.exc, rs.msg, rs.log)
       ELSE IF node.ops[1] \notin allowed_ops
            THEN Raise("ValueError", "Comparison operator not allowed", rs.log)
            ELSE CompareOp(node.ops[1], rs.vals[1], rs.vals[2], rs.log)

\* fn(*args), once the arguments have the outcomes rs.
ArgsThenCall(node, rs) ==
    IF rs.st = "err" THEN Raise(rs.exc, rs.msg, rs.log)
    ELSE [CallFunc(node.id, rs.vals) EXCEPT !.log = rs.log \o <<Invoke(node.id, "FUNCS")>>]

\* Mutant: the callee is resolved through the context first, so a context
\* entry named like the callee is what gets called.
visit_Call_context_first(node, ctx) ==
    IF node.id \in DOMAIN ctx
    THEN Ok(NoneV, <<Lookup(node.id), Invoke(node.id, "context")>>)
    ELSE IF node.id = "" \/ node.id \notin FUNCS
         THEN Raise("ValueError", "Function not allowed", <<>>)
         ELSE ArgsThenCall(node, visit_each(node.args, 1, ctx))

\* Mutant: the arguments are evaluated before the callee's name is checked.
visit_Call_args_first(node, ctx) ==
    LET rs == visit_each(node.args, 1, ctx)
    IN IF rs.st = "err" THEN Raise(rs.exc, rs.msg, rs.log)
       ELSE IF node.id = "" \/ node.id \notin FUNCS
            THEN Raise("ValueError", "Function not allowed", rs.log)
            ELSE ArgsThenCall(node, rs)

visit_Call(node, ctx) ==
    IF node.id = "" \/ node.id \notin FUNCS
    THEN Raise("ValueError", "Function not allowed", <<>>)
    ELSE ArgsThenCall(node, visit_each(node.args, 1, ctx))

\* Mutant: an absent name reads as None (context.get(node.id)).
visit_Name_default(node, ctx) ==
    IF node.id \notin DOMAIN ctx
    THEN Ok(NoneV, <<Lookup(node.id)>>)
    ELSE Ok(ctx[node.id], <<Lookup(node.id)>>)

visit_Name(node, ctx) ==
    IF node.id \notin DOMAIN ctx
    THEN Raise("ValueError", "Unknown variable", <<Lookup(node.id)>>)
    ELSE Ok(ctx[node.id], <<Lookup(node.id)>>)

visit_Constant(node, ctx) == Ok(node.val, <<>>)

visit_List(node, ctx) ==
    LET rs == visit_each(node.args, 1, ctx)
    IN IF rs.st = "err" THEN Raise(rs.exc, rs.msg, rs.log) ELSE Ok(ListV(rs.vals), rs.log)

visit_Set(node, ctx) ==
    LET rs == visit_each(node.args, 1, ctx)
    IN IF rs.st = "err" THEN Raise(rs.exc, rs.msg, rs.log)
       ELSE IF \E i \in 1..Len(rs.vals) : ~Hashable(rs.vals[i])
            THEN Raise("TypeError", "unhashable type", rs.log)
            ELSE Ok(SetV(Range(rs.vals)), rs.log)

\* Mutant: both operands are evaluated before the operator is checked.
visit_BinOp_operands_first(node, ctx) ==
    LET rs == visit_each(node.args, 1, ctx)
    IN IF rs.st = "err" THEN Raise(rs.exc, rs.msg, rs.log)
       ELSE IF node.ops[1] # "Sub"
            THEN Raise("ValueError", "Binary operation not allowed", rs.log)
            ELSE IF ~CanSet(rs.vals[1]) \/ ~CanSet(rs.vals[2])
                 THEN Raise("TypeError", "object is not iterable", rs.log)
                 ELSE Ok(SetV(ToSet(rs.vals[1]) \ ToSet(rs.vals[2])), rs.log)

\* Mutant: '-' between two numbers is arithmetic subtraction (left - right).
visit_BinOp_arithmetic(node, ctx) ==
    IF node.ops[1] = "Sub"
    THEN LET rs == visit_each(node.args, 1, ctx)
         IN IF rs.st = "err" THEN Raise(rs.exc, rs.msg, rs.log)
            ELSE IF rs.vals[1].t = "int" /\ rs.vals[2].t = "int"
                 THEN Ok(IntV(rs.vals[1].n - rs.vals[2].n), rs.log)
                 ELSE IF ~CanSet(rs.vals[1]) \/ ~CanSet(rs.vals[2])
                      THEN Raise("TypeError", "object is not iterable", rs.log)
                      ELSE Ok(SetV(ToSet(rs.vals[1]) \ ToSet(rs.vals[2])), rs.log)
    ELSE Raise("ValueError", "Binary operation not allowed", <<>>)

visit_BinOp(node, ctx) ==
    IF node.ops[1] = "Sub"
    THEN LET rs == visit_each(node.args, 1, ctx)
         IN IF rs.st = "err" THEN Raise(rs.exc, rs.msg, rs.log)
            ELSE IF ~CanSet(rs.vals[1]) \/ ~CanSet(rs.vals[2])
                 THEN Raise("TypeError",
                            SetError(IF ~CanSet(rs.vals[1]) THEN rs.vals[1] ELSE rs.vals[2]),
                            rs.log)
                 ELSE Ok(SetV(ToSet(rs.vals[1]) \ ToSet(rs.vals[2])), rs.log)
    ELSE Raise("ValueError", "Binary operation not allowed", <<>>)

visit(node, ctx) ==
    CASE node.k = "Module" -> visit_Module(node, ctx)
      [] node.k = "BoolOp" -> visit_BoolOp(node, ctx)
      [] node.k = "Compare" -> visit_Compare(node, ctx)
      [] node.k = "Call" -> visit_Call(node, ctx)
      [] node.k = "Name" -> visit_Name(node, ctx)
      [] node.k = "Constant" -> visit_Constant(node, ctx)
      [] node.k = "List" -> visit_List(node, ctx)
      [] node.k = "Set" -> visit_Set(node, ctx)
      [] node.k = "BinOp" -> visit_BinOp(node, ctx)
      [] OTHER -> generic_visit(node, ctx)

(***************************************************************************)
(* The inputs of the model: event contexts and condition strings.  A       *)
(* condition string is the sequence of its tokens.  Conditions lists, for  *)
(* each string of the model, what ast.parse makes of it: ok is false when  *)
(* the string is not an expression (SyntaxError), and body is the          *)
(* expression tree otherwise.                                              *)
(***************************************************************************)
EmptyCtx == [name \in {} |-> NoneV]
CtxEU == ("unique_ips" :> IntV(7)) @@ ("region" :> StrV("EU"))
CtxAPAC == ("unique_ips" :> IntV(3)) @@ ("region" :> StrV("APAC"))
\* A context whose entries are named like a callee (x) and a registry function (len).
CtxX == ("x" :> IntV(1)) @@ ("len" :> IntV(5)) @@ ("unique_ips" :> IntV(7))
        @@ ("region" :> StrV("US"))
Contexts == {EmptyCtx, CtxEU, CtxAPAC, CtxX}

Cond(text, body) == [text |-> text, ok |-> TRUE, body |-> body]
Malformed(text) == [text |-> text, ok |-> FALSE, body |-> Constant(NoneV)]

True == Constant(BoolV(TRUE))
False == Constant(BoolV(FALSE))
Num(i) == Constant(IntV(i))
Str(x) == Constant(StrV(x))

IpsGt5 == Compare(Name("unique_ips"), <<"Gt">>, <<Num(5)>>)
RegionInSet == Call("in_set", <<Name("region"), List(<<Str("EU"), Str("US")>>)>>)
ZGt1 == Compare(Name("z"), <<"Gt">>, <<Num(1)>>)
APlusB == BinOp(Name("a"), "Add", Name("b"))

TextIps == <<"unique_ips", ">", "5">>
TextRegion == <<"in_set", "(", "region", ",", "[", "'EU'", ",", "'US'", "]", ")">>
TextZ == <<"z", ">", "1">>

\* "unique_ips > 5 and in_set(region, ['EU','US'])"
CondScenario == Cond(TextIps \o <<"and">> \o TextRegion, BoolOp("And", <<IpsGt5, RegionInSet>>))
CondIps == Cond(TextIps, IpsGt5)
CondZ == Cond(TextZ, ZGt1)
CondBadSyntax == Malformed(<<"unique_ips", ">">>)
CondAttr == Cond(<<"x", ".", "y">>, Attribute(Name("x"), "y"))
CondAdd == Cond(<<"1", "+", "2">>, BinOp(Num(1), "Add", Num(2)))
CondTypes == Cond(<<"unique_ips", ">", "'a'">>,
                  Compare(Name("unique_ips"), <<"Gt">>, <<Str("a")>>))

\* The operands the generated boolean operations are built from.
Operands == {Cond(<<"True">>, True), Cond(<<"False">>, False), CondZ, CondIps,
             Cond(TextRegion, RegionInSet)}
OperandLists == UNION {[1..n -> Operands] : n \in 2..MaxOperands}

RECURSIVE JoinTexts(_, _, _)
JoinTexts(vs, i, word) ==
    IF i = Len(vs) THEN vs[i].text
    ELSE vs[i].text \o <<word>> \o JoinTexts(vs, i + 1, word)

\* "A and B ...", "A or B ..."
BoolConds ==
    {Cond(JoinTexts(vs, 1, "and"), BoolOp("And", [i \in 1..Len(vs) |-> vs[i].body])) :
        vs \in OperandLists}
    \cup
    {Cond(JoinTexts(vs, 1, "or"), BoolOp("Or", [i \in 1..Len(vs) |-> vs[i].body])) :
        vs \in OperandLists}

OtherConds == {
    CondScenario, CondIps, CondZ, CondBadSyntax, CondAttr, CondAdd, CondTypes,
    Cond(<<"True">>, True),
    Cond(<<"unique_ips">>, Name("unique_ips")),
    Cond(<<"region", "==", "'EU'">>, Compare(Name("region"), <<"Eq">>, <<Str("EU")>>)),
    Cond(<<"not", "x">>, UnaryOp("Not", Name("x"))),
    Cond(<<"-", "x">>, UnaryOp("USub", Name("x"))),
    Cond(<<"z", "+", "1">>, BinOp(Name("z"), "Add", Num(1))),
    Cond(<<"foo", "(", "z", ")">>, Call("foo", <<Name("z")>>)),
    Cond(<<"x", "(", ")">>, Call("x", <<>>)),
    Cond(<<"x", ".", "y", "(", ")">>, Call("", <<>>)),
    Cond(<<"len", "(", "region", ")", ">", "1">>,
         Compare(Call("len", <<Name("region")>>), <<"Gt">>, <<Num(1)>>)),
    Cond(<<"max", "(", "unique_ips", ",", "5", ")", ">=", "7">>,
         Compare(Call("max", <<Name("unique_ips"), Num(5)>>), <<"GtE">>, <<Num(7)>>)),
    Cond(<<"abs", "(", "x", ")">>, Call("abs", <<Name("x")>>)),
    Cond(<<"not_in_set", "(", "region", ",", "[", "'EU'", "]", ")">>,
         Call("not_in_set", <<Name("region"), List(<<Str("EU")>>)>>)),
    Cond(<<"jaccard_distance", "(", "[", "'a'", ",", "'b'", ",", "'c'", "]", ",",
           "[", "'b'", ",", "'c'", ",", "'d'", "]", ")", "==", "0.5">>,
         Compare(Call("jaccard_distance",
                      <<List(<<Str("a"), Str("b"), Str("c")>>),
                        List(<<Str("b"), Str("c"), Str("d")>>)>>),
                 <<"Eq">>, <<Constant(FloatV(1, 2))>>)),
    Cond(<<"lambda", ":", "1">>, Lambda(Num(1))),
    Cond(<<"lambda", ":", "z">>, Lambda(Name("z"))),
    Cond(<<"x", "[", "0", "]">>, Subscript(Name("x"), Num(0))),
    Cond(<<"x", "if", "x", "else", "z">>, IfExp(Name("x"), Name("x"), Name("z"))),
    Cond(<<"[", "x", "for", "x", "in", "region", "]">>,
         ListComp(Name("x"), Name("x"), Name("region"))),
    Cond(<<"x", "in", "[", "1", "]">>, Compare(Name("x"), <<"In">>, <<List(<<Num(1)>>)>>)),
    Cond(<<"[", "1", ",", "2", "]", "-", "[", "2", "]">>,
         BinOp(List(<<Num(1), Num(2)>>), "Sub", List(<<Num(2)>>))),
    Cond(<<"{", "1", ",", "2", "}", "-", "{", "1", ",", "2", "}">>,
         BinOp(SetLit(<<Num(1), Num(2)>>), "Sub", SetLit(<<Num(1), Num(2)>>))),
    Cond(<<"1", "<", "2", "<", "3">>, Compare(Num(1), <<"Lt", "Lt">>, <<Num(2), Num(3)>>)),
    Cond(<<"1", "<", "5", "<", "3">>, Compare(Num(1), <<"Lt", "Lt">>, <<Num(5), Num(3)>>)),
    Cond(<<"unique_ips", ">", "5", ">", "7">>,
         Compare(Name("unique_ips"), <<"Gt", "Gt">>, <<Num(5), Num(7)>>)),
    Cond(<<"3", "<", "2", "or", "x", "+", "1">>,
         BoolOp("Or", <<Compare(Num(3), <<"Lt">>, <<Num(2)>>),
                        BinOp(Name("x"), "Add", Num(1))>>)),
    Cond(TextZ \o <<"and", "(", "a", "+", "b", ")">>, BoolOp("And", <<ZGt1, APlusB>>)),
    Cond(<<"(", "a", "+", "b", ")", "and">> \o TextZ, BoolOp("And", <<APlusB, ZGt1>>)),
    Cond(TextIps \o <<"and", "(", "a", "+", "b", ")">>, BoolOp("And", <<IpsGt5, APlusB>>)),
    Cond(<<"len", "(", "z", "*", "2", ")">>, Call("len", <<BinOp(Name("z"), "Mult", Num(2))>>)),
    Cond(<<"len", ">", "1">>, Compare(Name("len"), <<"Gt">>, <<Num(1)>>)),
    Cond(<<"foo", "(", "z", ")", "or">> \o TextIps,
         BoolOp("Or", <<Call("foo", <<Name("z")>>), IpsGt5>>)),
    Cond(TextIps \o <<"or", "foo", "(", "z", ")">>,
         BoolOp("Or", <<IpsGt5, Call("foo", <<Name("z")>>)>>)),
    Cond(<<"len", "(", "foo", "(", "z", ")", ")">>, Call("len", <<Call("foo", <<Name("z")>>)>>)),
    Cond(<<"eval", "(", "region", ")">>, Call("eval", <<Name("region")>>)),
    Cond(<<"x", ".", "y", "(", "z", ")">>, Call("", <<Name("z")>>)),
    Cond(<<"7", "-", "5">>, BinOp(Num(7), "Sub", Num(5))),
    Cond(<<"unique_ips", "-", "5">>, BinOp(Name("unique_ips"), "Sub", Num(5))),
    Cond(<<"region", "-", "'U'">>, BinOp(Name("region"), "Sub", Str("U"))),
    Cond(<<"[", "region", ",", "'EU'", "]", "-", "[", "'EU'", "]">>,
         BinOp(List(<<Name("region"), Str("EU")>>), "Sub", List(<<Str("EU")>>))),
    Cond(<<"[", "1", ",", "2", "]", "-", "z">>, BinOp(List(<<Num(1), Num(2)>>), "Sub", Name("z"))),
    Cond(<<"[", "1", ",", "1", ",", "2", "]", "-", "{", "True", "}">>,
         BinOp(List(<<Num(1), Num(1), Num(2)>>), "Sub", SetLit(<<True>>))),
    Cond(<<"[", "[", "1", "]", "]", "-", "[", "1", "]">>,
         BinOp(List(<<List(<<Num(1)>>)>>), "Sub", List(<<Num(1)>>)))
}

\* "L op R" for the operands and the comparison operators of the model.
CmpOperands ==
    {Cond(<<"unique_ips">>, Name("unique_ips")), Cond(<<"region">>, Name("region")),
     Cond(<<"5">>, Num(5)), Cond(<<"7">>, Num(7)), Cond(<<"'EU'">>, Str("EU")),
     Cond(<<"None">>, Constant(NoneV))}

CmpOps ==
    {[op |-> "Gt", text |-> <<">">>], [op |-> "GtE", text |-> <<">=">>],
     [op |-> "Lt", text |-> <<"<">>], [op |-> "LtE", text |-> <<"<=">>],
     [op |-> "Eq", text |-> <<"==">>], [op |-> "NotEq", text |-> <<"!=">>],
     [op |-> "In", text |-> <<"in">>], [op |-> "NotIn", text |-> <<"not", "in">>],
     [op |-> "Is", text |-> <<"is">>], [op |-> "IsNot", text |-> <<"is", "not">>]}

CompareConds ==
    {Cond(l.text \o o.text \o r.text, Compare(l.body, <<o.op>>, <<r.body>>)) :
        l \in CmpOperands, o \in CmpOps, r \in CmpOperands}

Conditions == BoolConds \cup OtherConds \cup CompareConds
Texts == {c.text : c \in Conditions}
ParseTable == [text \in Texts |-> CHOOSE c \in Conditions : c.text = text]

(***************************************************************************)
(* eval_condition.                                                         *)
(***************************************************************************)
\* ast.parse(expr, mode='eval'): SyntaxError, or the tree Expression(body=...)
\* that mode='eval' produces.
ast_parse(expr) ==
    IF ParseTable[expr].ok
    THEN [st |-> "ok", tree |-> Expression(ParseTable[expr].body)]
    ELSE [st |-> "err", tree |-> Expression(ParseTable[expr].body)]

\* return bool(result), or the ValueError that wraps the exception raised.
\* Mutant: the handler re-raises the exception it caught ("raise" in place of
\* "raise ValueError(...)").
WrapResult_reraise(result) ==
    IF result.st = "err"
    THEN Raise(result.exc, result.msg, result.log)
    ELSE Ok(BoolV(Truthy(result.val)), result.log)

WrapResult(result) ==
    IF result.st = "err"
    THEN Raise("ValueError", result.msg, result.log)
    ELSE Ok(BoolV(Truthy(result.val)), result.log)

\* try: ... evaluator.visit(tree) ... except Exception: raise ValueError(...), once
\* ast.parse has had the outcome `parsed`.
VisitParsed(parsed, ctx) ==
    IF parsed.st = "err"
    THEN Raise("ValueError", "invalid syntax", <<>>)
    ELSE WrapResult(visit(parsed.tree, ctx))

\* The outcome of a call: st = "ok" with the returned bool in val, or st = "err"
\* with the exception class in exc and the wrapped message in msg.
eval_condition(expr, ctx) == VisitParsed(ast_parse(expr), ctx)

\* eval_condition on the conditions and contexts of the model, as a function
\* evaluated once; on any other input, the call itself.
eval_condition_on == [x \in Texts, c \in Contexts |-> eval_condition(x, c)]
Outcome(x, c) ==
    IF x \in Texts /\ c \in Contexts THEN eval_condition_on[x, c] ELSE eval_condition(x, c)

\* Mutant: visit_Name takes the entry out of the context as it reads it
\* (self.context.pop(node.id)).
context_after_pop(expr, ctx) ==
    [n \in DOMAIN ctx \ {eval_condition(expr, ctx).log[i].name :
                            i \in 1..Len(eval_condition(expr, ctx).log)} |-> ctx[n]]

\* The context dictionary as the call eval_condition(expr, ctx) leaves it.
\* SafeEvaluator keeps a reference to the caller's dictionary (self.context =
\* context) and only reads it: "node.id not in self.context" and
\* self.context[node.id] in visit_Name.  No statement assigns to it, and no
\* registry function changes a value it is given (set(a) builds a new set).
context_after(expr, ctx) == ctx

(***************************************************************************)
(* State.                                                                  *)
(*   rules, event : the arguments of evaluate_rules                        *)
(*   idx          : the position of the loop in rules                      *)
(*   hits         : the list being built, returned when pc = "done"        *)
(*   hit_idx      : for each element of hits, the position that added it   *)
(*   evaluated    : the positions whose condition went to eval_condition   *)
(*   reported     : the positions whose error the except branch printed    *)
(*   pc           : "loop", "done" (returned), "raised" (exception left    *)
(*                  evaluate_rules); "eval", "evaluated" for eval_condition*)
(*   cond_expr,   : the argument and the outcome of an eval_condition      *)
(*   outcome        call                                                   *)
(*   func_name,   : the name of the registry function called and the      *)
(*   fn_args        values of its arguments; outcome is then the call's    *)
(*                  outcome                                                *)
(*   previous     : what the earlier calls with the same arguments gave:   *)
(*                  for each, its hits, evaluated, reported and outcome    *)
(***************************************************************************)
VARIABLES rules, event, idx, hits, hit_idx, evaluated, reported, pc, cond_expr, outcome,
          func_name, fn_args, previous

engine_vars == <<rules, event, idx, hits, hit_idx, evaluated, reported, pc, cond_expr, outcome,
                 func_name, fn_args, previous>>

NotCalled == [st |-> "none", exc |-> "", msg |-> "", val |-> NoneV, log |-> <<>>]

(***************************************************************************)
(* State of concurrent callers.  Each worker of Workers runs its own call  *)
(* evaluate_rules(w_event[w], rules) on the shared list rules; the locals  *)
(* of its call are its own:                                                *)
(*   w_event      : the event the worker was given                         *)
(*   w_idx        : the position of its loop                               *)
(*   w_hits       : its list hits                                          *)
(*   w_evaluated, : the positions it sent to eval_condition and those      *)
(*   w_reported     whose error it printed                                 *)
(*   w_pc         : "idle", "loop", "done" (returned), "raised"            *)
(***************************************************************************)
VARIABLES w_event, w_idx, w_hits, w_evaluated, w_reported, w_pc

worker_vars == <<w_event, w_idx, w_hits, w_evaluated, w_reported, w_pc>>

Workers == {"w1", "w2"}

WorkersIdle ==
    /\ w_event = [w \in Workers |-> << >>]
    /\ w_idx = [w \in Workers |-> 1]
    /\ w_hits = [w \in Workers |-> <<>>]
    /\ w_evaluated = [w \in Workers |-> <<>>]
    /\ w_reported = [w \in Workers |-> <<>>]
    /\ w_pc = [w \in Workers |-> "idle"]

(***************************************************************************)
(* State of the rule validator (validate_rules.py, main).                  *)
(*   schema_loads : whether load_schema(schema_path) succeeds              *)
(*   rule_files   : the files rules_dir.glob finds, schema.yaml left out   *)
(*   file_idx     : the position of main's loop in rule_files              *)
(*   all_valid    : main's local of that name                              *)
(*   results      : what validate_rule_file returned for each file so far  *)
(*   printed      : the lines printed so far, each with its stream         *)
(*   exit_status  : the argument of sys.exit, None while main runs         *)
(*   v_pc         : "idle", "start", "files", "summary", "exited"          *)
(***************************************************************************)
VARIABLES schema_loads, rule_files, file_idx, all_valid, results, printed, exit_status, v_pc

validator_vars ==
    <<schema_loads, rule_files, file_idx, all_valid, results, printed, exit_status, v_pc>>

ValidatorIdle ==
    /\ schema_loads = TRUE
    /\ rule_files = <<>>
    /\ file_idx = 1
    /\ all_valid = TRUE
    /\ results = <<>>
    /\ printed = <<>>
    /\ exit_status = NoneV
    /\ v_pc = "idle"

(***************************************************************************)
(* State of the privacy layer (nhiti/privacy.py, NHITIPrivacy).            *)
(*   k_threshold : the field of that name                                  *)
(*   indicators  : the argument of aggregate_indicators                    *)
(*   grouped     : its dictionary grouped, in insertion order              *)
(*   group_idx   : the position of its second loop in grouped              *)
(*   anonymized  : its list anonymized                                     *)
(*   built_from  : for each element of anonymized, the key of the group    *)
(*                 it was built from                                       *)
(*   ioc_in      : the argument of a direct anonymize_ioc call             *)
(*   anon_out    : what that call returned                                 *)
(*   p_pc        : "idle", "start", "aggregate", "returned", "anonymized"  *)
(* State of the audit logger (ml-service utils/audit.py, AuditLogger).     *)
(*   previous_hash : the field of that name                                *)
(*   log_file      : what the file holds, one element per write            *)
(*   log_calls     : the number of log_prediction calls made so far        *)
(*   last_call     : how the last call ended and the previous_hash it      *)
(*                   started from                                          *)
(***************************************************************************)
VARIABLES k_threshold, indicators, grouped, group_idx, anonymized, built_from, ioc_in, anon_out, p_pc

VARIABLES previous_hash, log_file, log_calls, last_call

privacy_vars ==
    <<k_threshold, indicators, grouped, group_idx, anonymized, built_from, ioc_in, anon_out, p_pc>>

audit_vars == <<previous_hash, log_file, log_calls, last_call>>

service_vars == <<privacy_vars, audit_vars>>

\* "0" * 64
GenesisHash == [i \in 1..64 |-> "0"]

\* A dictionary of the privacy layer: an indicator of compromise as a report
\* carries it, as aggregate_indicators builds it or as a caller passes it.  A
\* key the dictionary does not hold has the value Absent.
Absent == [t |-> "absent", n |-> 0, d |-> 1, s |-> "", items |-> <<>>, elems |-> {}]
Ioc(indicator_value, organization_id, observation_count, contributing_orgs, indicator_hash) ==
    [indicator_value |-> indicator_value, organization_id |-> organization_id,
     observation_count |-> observation_count, contributing_orgs |-> contributing_orgs,
     indicator_hash |-> indicator_hash]
EmptyIoc == Ioc(Absent, Absent, Absent, Absent, Absent)

PrivacyIdle ==
    /\ k_threshold = 5
    /\ indicators = <<>>
    /\ grouped = <<>>
    /\ group_idx = 1
    /\ anonymized = <<>>
    /\ built_from = <<>>
    /\ ioc_in = EmptyIoc
    /\ anon_out = NoneV
    /\ p_pc = "idle"

NoCall == [status |-> "none", started_from |-> GenesisHash]

AuditIdle ==
    /\ previous_hash = GenesisHash
    /\ log_file = <<>>
    /\ log_calls = 0
    /\ last_call = NoCall

ServicesIdle == PrivacyIdle /\ AuditIdle

\* The variables outside the engine's single call, and their values while
\* the part of the program they belong to is not running.
other_vars == <<worker_vars, validator_vars, service_vars>>
OthersIdle == WorkersIdle /\ ValidatorIdle /\ ServicesIdle

vars == <<engine_vars, other_vars>>

(***************************************************************************)
(* Rule and evaluate_rules.                                                *)
(***************************************************************************)
Rule(name, description, severity, action, condition, metadata, enabled, ttl_seconds) ==
    [name |-> name, description |-> description, severity |-> severity,
     action |-> action, condition |-> condition, metadata |-> metadata,
     enabled |-> enabled, ttl_seconds |-> ttl_seconds]

\* The hit dictionary of a matching rule; the key ttl_seconds is added only
\* under "if rule.ttl_seconds:".
make_hit(rule) ==
    LET hit == [rule |-> rule.name, description |-> rule.description,
                severity |-> rule.severity, action |-> rule.action,
                metadata |-> rule.metadata]
    IN IF Truthy(rule.ttl_seconds)
       THEN [rule |-> rule.name, description |-> rule.description,
             severity |-> rule.severity, action |-> rule.action,
             metadata |-> rule.metadata, ttl_seconds |-> rule.ttl_seconds]
       ELSE hit

\* The exception classes "except Exception" catches.
ExceptionClasses == {"ValueError", "TypeError", "SyntaxError", "KeyError", "RecursionError"}

\* Mutant: the except clause catches SyntaxError only.
StepOf_except_SyntaxError(rule, r) ==
    IF r.st = "err"
    THEN IF r.exc = "SyntaxError"
         THEN [called |-> TRUE, hit |-> <<>>, reported |-> TRUE, raised |-> FALSE]
         ELSE [called |-> TRUE, hit |-> <<>>, reported |-> FALSE, raised |-> TRUE]
    ELSE IF Truthy(r.val)
         THEN [called |-> TRUE, hit |-> <<make_hit(rule)>>, reported |-> FALSE,
               raised |-> FALSE]
         ELSE [called |-> TRUE, hit |-> <<>>, reported |-> FALSE, raised |-> FALSE]

\* One iteration of the loop of evaluate_rules over `rule`:
\*   called   : eval_condition was called with the rule's condition
\*   hit      : the hits appended (none or one)
\*   reported : the except branch printed the rule's error
\*   raised   : an exception left the loop
\* StepOf is the part after the call eval_condition(rule.condition, event)
\* has had the outcome r.
StepOf(rule, r) ==
    IF r.st = "err"
    THEN IF r.exc \in ExceptionClasses
         THEN [called |-> TRUE, hit |-> <<>>, reported |-> TRUE, raised |-> FALSE]
         ELSE [called |-> TRUE, hit |-> <<>>, reported |-> FALSE, raised |-> TRUE]
    ELSE IF Truthy(r.val)
         THEN [called |-> TRUE, hit |-> <<make_hit(rule)>>, reported |-> FALSE,
               raised |-> FALSE]
         ELSE [called |-> TRUE, hit |-> <<>>, reported |-> FALSE, raised |-> FALSE]

\* Mutant: the "if not rule.enabled: continue" test is missing.
evaluate_rules_step_no_skip(rule, ev) ==
    IF eval_condition(rule.condition, ev).st = "err"
    THEN [called |-> TRUE, hit |-> <<>>, reported |-> TRUE, raised |-> FALSE]
    ELSE [called |-> TRUE, hit |-> <<>>, reported |-> FALSE, raised |-> FALSE]

\* Mutant: disabled rules are not skipped and a rule whose evaluation fails is
\* taken as matching (the engine fails open).
evaluate_rules_step_fail_open(rule, ev) ==
    IF eval_condition(rule.condition, ev).st = "err"
    THEN [called |-> TRUE, hit |-> <<make_hit(rule)>>, reported |-> TRUE, raised |-> FALSE]
    ELSE [called |-> TRUE, hit |-> <<>>, reported |-> FALSE, raised |-> FALSE]

\* Mutant: a rule whose evaluation failed in the previous call is skipped from
\* then on (the failure is remembered between calls).
evaluate_rules_step_skip_failed(rule, ev) ==
    IF ~rule.enabled \/ (previous # <<>> /\ idx \in Range(previous[Len(previous)].reported))
    THEN [called |-> FALSE, hit |-> <<>>, reported |-> FALSE, raised |-> FALSE]
    ELSE StepOf(rule, eval_condition(rule.condition, ev))

evaluate_rules_step(rule, ev) ==
    IF ~rule.enabled
    THEN [called |-> FALSE, hit |-> <<>>, reported |-> FALSE, raised |-> FALSE]
    ELSE StepOf(rule, Outcome(rule.condition, ev))

\* Mutant: a rule whose evaluation failed is switched off (rule.enabled = False
\* in the except branch).
rule_after_disable_failed(rule, ev) ==
    IF evaluate_rules_step(rule, ev).reported THEN [rule EXCEPT !.enabled = FALSE] ELSE rule

\* The Rule object as one iteration of the loop leaves it: the iteration reads
\* rule.enabled, rule.condition, rule.name, rule.description, rule.severity,
\* rule.action, rule.metadata and rule.ttl_seconds and assigns to none of them.
rule_after(rule, ev) == rule

\* The event dictionary as one iteration leaves it: it goes to eval_condition
\* when the rule is enabled and is not touched otherwise.
event_after(rule, ev) == IF rule.enabled THEN context_after(rule.condition, ev) ELSE ev

\* Mutant: a rule whose evaluation failed is tried again (the except branch
\* does not move on to the next rule).
next_rule_retry_failed(i, r) == IF r.reported THEN i ELSE i + 1

\* "for rule in rules": the position the loop takes after the iteration at
\* position i had the result r.  Both "continue" statements and the end of the
\* body go on to the next element, whatever the iteration did.
next_rule(i, r) == i + 1

\* The rule lists of the model: rule i is named RuleNames[i].
RuleNames == <<"R1", "R2", "R3", "R4">>
Severities == <<"high", "low", "critical", "medium">>
Actions == <<"deny", "notify", "quarantine", "allow">>
Descriptions == <<"first rule", "second rule", "third rule", "fourth rule">>
Metadata(i) == [mitre_attack |-> <<RuleNames[i]>>]
RuleConds == {c.text : c \in {CondScenario, CondIps, CondZ, CondBadSyntax, CondAttr, CondAdd,
                               CondTypes}}
TTLs == {NoneV, IntV(300)}
\* The rule list whose rule i has condition cs[i], enabled es[i], ttl_seconds ts[i].
RuleList(cs, es, ts) ==
    [i \in 1..Len(cs) |->
        Rule(RuleNames[i], Descriptions[i], Severities[i], Actions[i], cs[i],
             Metadata(i), es[i], ts[i])]

Init ==
    /\ \E n \in 0..MaxRules :
          \E cs \in [1..n -> RuleConds], es \in [1..n -> BOOLEAN], ts \in [1..n -> TTLs] :
              rules = RuleList(cs, es, ts)
    /\ event \in Contexts
    /\ idx = 1
    /\ hits = <<>>
    /\ hit_idx = <<>>
    /\ evaluated = <<>>
    /\ reported = <<>>
    /\ pc = "loop"
    /\ cond_expr = CondIps.text
    /\ outcome = NotCalled
    /\ func_name = "len"
    /\ fn_args = <<>>
    /\ previous = <<>>
    /\ OthersIdle

\* for rule in rules: ... (one iteration)
RunRule ==
    /\ pc = "loop"
    /\ idx <= Len(rules)
    /\ \E r \in {evaluate_rules_step(rules[idx], event)} :
          /\ hits' = hits \o r.hit
          /\ hit_idx' = IF r.hit # <<>> THEN Append(hit_idx, idx) ELSE hit_idx
          /\ evaluated' = IF r.called THEN Append(evaluated, idx) ELSE evaluated
          /\ reported' = IF r.reported THEN Append(reported, idx) ELSE reported
          /\ pc' = IF r.raised THEN "raised" ELSE "loop"
          /\ idx' = next_rule(idx, r)
    /\ rules' = [rules EXCEPT ![idx] = rule_after(rules[idx], event)]
    /\ event' = event_after(rules[idx], event)
    /\ UNCHANGED <<cond_expr, outcome, func_name, fn_args, previous>>
    /\ UNCHANGED other_vars

\* return hits
Return ==
    /\ pc = "loop"
    /\ idx > Len(rules)
    /\ pc' = "done"
    /\ UNCHANGED <<rules, event, idx, hits, hit_idx, evaluated, reported, cond_expr, outcome,
                   func_name, fn_args, previous>>
    /\ UNCHANGED other_vars

Next == RunRule \/ Return

Spec == Init /\ [][Next]_vars

(***************************************************************************)
(* A single call eval_condition(cond_expr, event).                         *)
(***************************************************************************)
InitEval ==
    /\ rules = <<>>
    /\ event \in Contexts
    /\ idx = 1
    /\ hits = <<>>
    /\ hit_idx = <<>>
    /\ evaluated = <<>>
    /\ reported = <<>>
    /\ pc = "eval"
    /\ cond_expr \in Texts
    /\ outcome = NotCalled
    /\ func_name = "len"
    /\ fn_args = <<>>
    /\ previous = <<>>
    /\ OthersIdle

Evaluate ==
    /\ pc = "eval"
    /\ outcome' = Outcome(cond_expr, event)
    /\ event' = context_after(cond_expr, event)
    /\ pc' = "evaluated"
    /\ UNCHANGED <<rules, idx, hits, hit_idx, evaluated, reported, cond_expr,
                   func_name, fn_args, previous>>
    /\ UNCHANGED other_vars

NextEval == Evaluate

SpecEval == InitEval /\ [][NextEval]_vars

(***************************************************************************)
(* A call that runs to its end: eval_condition, or evaluate_rules, with    *)
(* the interpreter always taking the next step of the running call.        *)
(***************************************************************************)
NextTotal == RunRule \/ Return \/ Evaluate

InitTotal == Init \/ InitEval

SpecTotal == InitTotal /\ [][NextTotal]_vars /\ WF_vars(NextTotal)

(***************************************************************************)
(* Repeated calls: evaluate_rules, or eval_condition, is called again with *)
(* the same arguments after it has returned or raised.  What a call gave   *)
(* is kept in previous; the locals of evaluate_rules start afresh.         *)
(***************************************************************************)
Result == [hits |-> hits, evaluated |-> evaluated, reported |-> reported, outcome |-> outcome]

\* evaluate_rules(event, rules), called once more: hits = [] and the loop
\* starts at the first rule.
CallAgain ==
    /\ pc \in {"done", "raised"}
    /\ Len(previous) + 1 < MaxCalls
    /\ previous' = Append(previous, Result)
    /\ idx' = 1
    /\ hits' = <<>>
    /\ hit_idx' = <<>>
    /\ evaluated' = <<>>
    /\ reported' = <<>>
    /\ pc' = "loop"
    /\ UNCHANGED <<rules, event, cond_expr, outcome, func_name, fn_args>>
    /\ UNCHANGED other_vars

\* eval_condition(expr, ctx), called once more.
EvaluateAgain ==
    /\ pc = "evaluated"
    /\ Len(previous) + 1 < MaxCalls
    /\ previous' = Append(previous, Result)
    /\ outcome' = Outcome(cond_expr, event)
    /\ event' = context_after(cond_expr, event)
    /\ UNCHANGED <<rules, idx, hits, hit_idx, evaluated, reported, pc, cond_expr,
                   func_name, fn_args>>
    /\ UNCHANGED other_vars

InitRepeat == Init \/ InitEval

NextRepeat == RunRule \/ Return \/ CallAgain \/ Evaluate \/ EvaluateAgain

SpecRepeat == InitRepeat /\ [][NextRepeat]_vars

(***************************************************************************)
(* A single call of a registry function fn with the argument values args,  *)
(* as visit_Call makes it once the arguments have their values.            *)
(***************************************************************************)
\* The values the arguments are drawn from.
ArgValues ==
    {NoneV, IntV(1), IntV(7), BoolV(TRUE), FloatV(1, 2), StrV(""), StrV("EU"), StrV("a"),
     ListV(<<>>), ListV(<<StrV("a"), StrV("b"), StrV("c")>>),
     ListV(<<StrV("b"), StrV("c"), StrV("d")>>), ListV(<<StrV("d")>>),
     ListV(<<IntV(1), IntV(1), BoolV(TRUE)>>), ListV(<<ListV(<<IntV(1)>>)>>),
     SetV({}), SetV({StrV("a"), StrV("b"), StrV("c")}), SetV({IntV(1), IntV(7)})}

ArgLists == UNION {[1..n -> ArgValues] : n \in 0..MaxArgs}

InitCall ==
    /\ rules = <<>>
    /\ event = EmptyCtx
    /\ idx = 1
    /\ hits = <<>>
    /\ hit_idx = <<>>
    /\ evaluated = <<>>
    /\ reported = <<>>
    /\ pc = "call"
    /\ cond_expr = CondIps.text
    /\ outcome = NotCalled
    /\ func_name \in FUNCS
    /\ fn_args \in ArgLists
    /\ previous = <<>>
    /\ OthersIdle

\* return fn(*args)
CallRegistry ==
    /\ pc = "call"
    /\ outcome' = CallFunc(func_name, fn_args)
    /\ pc' = "called"
    /\ UNCHANGED <<rules, event, idx, hits, hit_idx, evaluated, reported, cond_expr,
                   func_name, fn_args, previous>>
    /\ UNCHANGED other_vars

NextCall == CallRegistry

SpecCall == InitCall /\ [][NextCall]_vars

(***************************************************************************)
(* Concurrent calls of evaluate_rules.  The caller's pool gives every      *)
(* worker the same list rules and its own event; each worker runs the loop *)
(* of evaluate_rules, one iteration a step, and the steps of the workers   *)
(* interleave in any order.  The code takes no lock, so no step waits.     *)
(***************************************************************************)
WorkerConds == {CondIps.text, CondScenario.text, CondBadSyntax.text}

InitWorkers ==
    /\ \E n \in 0..MaxRules :
          \E cs \in [1..n -> WorkerConds], es \in [1..n -> BOOLEAN] :
              rules = RuleList(cs, es, [i \in 1..n |-> NoneV])
    /\ event = EmptyCtx
    /\ idx = 1
    /\ hits = <<>>
    /\ hit_idx = <<>>
    /\ evaluated = <<>>
    /\ reported = <<>>
    /\ pc = "workers"
    /\ cond_expr = CondIps.text
    /\ outcome = NotCalled
    /\ func_name = "len"
    /\ fn_args = <<>>
    /\ previous = <<>>
    /\ w_event \in {f \in [Workers -> Contexts] : \A v, w \in Workers : v # w => f[v] # f[w]}
    /\ w_idx = [w \in Workers |-> 1]
    /\ w_hits = [w \in Workers |-> <<>>]
    /\ w_evaluated = [w \in Workers |-> <<>>]
    /\ w_reported = [w \in Workers |-> <<>>]
    /\ w_pc = [w \in Workers |-> "loop"]
    /\ ValidatorIdle
    /\ ServicesIdle

\* One iteration of worker w's loop: "for rule in rules" of its own call, on
\* its own event and its own list hits.
WorkerRunRule(w) ==
    /\ w_pc[w] = "loop"
    /\ w_idx[w] <= Len(rules)
    /\ \E r \in {evaluate_rules_step(rules[w_idx[w]], w_event[w])} :
          /\ w_hits' = [w_hits EXCEPT ![w] = @ \o r.hit]
          /\ w_evaluated' = [w_evaluated EXCEPT
                                ![w] = IF r.called THEN Append(@, w_idx[w]) ELSE @]
          /\ w_reported' = [w_reported EXCEPT
                                ![w] = IF r.reported THEN Append(@, w_idx[w]) ELSE @]
          /\ w_pc' = [w_pc EXCEPT ![w] = IF r.raised THEN "raised" ELSE "loop"]
          /\ w_idx' = [w_idx EXCEPT ![w] = next_rule(@, r)]
    /\ rules' = [rules EXCEPT ![w_idx[w]] = rule_after(rules[w_idx[w]], w_event[w])]
    /\ w_event' = [w_event EXCEPT ![w] = event_after(rules[w_idx[w]], @)]
    /\ UNCHANGED <<event, idx, hits, hit_idx, evaluated, reported, pc, cond_expr, outcome,
                   func_name, fn_args, previous>>
    /\ UNCHANGED <<validator_vars, service_vars>>

\* return hits, in worker w
WorkerReturn(w) ==
    /\ w_pc[w] = "loop"
    /\ w_idx[w] > Len(rules)
    /\ w_pc' = [w_pc EXCEPT ![w] = "done"]
    /\ UNCHANGED <<engine_vars, w_event, w_idx, w_hits, w_evaluated, w_reported>>
    /\ UNCHANGED <<validator_vars, service_vars>>

NextWorkers == \E w \in Workers : WorkerRunRule(w) \/ WorkerReturn(w)

SpecWorkers == InitWorkers /\ [][NextWorkers]_vars

(***************************************************************************)
(* The engine while another part of the program runs: no call in progress. *)
(***************************************************************************)
EngineIdle ==
    /\ rules = <<>>
    /\ event = EmptyCtx
    /\ idx = 1
    /\ hits = <<>>
    /\ hit_idx = <<>>
    /\ evaluated = <<>>
    /\ reported = <<>>
    /\ pc = "idle"
    /\ cond_expr = CondIps.text
    /\ outcome = NotCalled
    /\ func_name = "len"
    /\ fn_args = <<>>
    /\ previous = <<>>

(***************************************************************************)
(* The rule validator, validate_rules.py.  A rule file is what the         *)
(* validator finds in it:                                                  *)
(*   name      : the file's name (rule_file.name)                          *)
(*   yaml_ok   : whether yaml.safe_load parses it                          *)
(*   schema_ok : whether jsonschema.validate accepts the parsed rules      *)
(*   rules     : the parsed rules, dictionaries with the keys name,        *)
(*               condition, severity, action and metadata                  *)
(* A message is a sequence of pieces: the fixed text of the f-string and   *)
(* the values put into it.  Technique IDs are sequences of characters.     *)
(***************************************************************************)
RuleFile(name, yaml_ok, schema_ok, file_rules) ==
    [name |-> name, yaml_ok |-> yaml_ok, schema_ok |-> schema_ok, rules |-> file_rules]

YamlRule(name, condition, severity, action, mitre_attack) ==
    [name |-> name, condition |-> condition, severity |-> severity, action |-> action,
     metadata |-> [mitre_attack |-> mitre_attack]]

valid_severities == {"low", "medium", "high", "critical"}
valid_actions == {"allow", "deny", "step_up_auth", "rotate_immediately", "quarantine", "notify"}

Digits == {"0", "1", "2", "3", "4", "5", "6", "7", "8", "9"}

\* str.isdigit(): every character is a digit and there is at least one.
isdigit(cs) == cs # <<>> /\ \A i \in 1..Len(cs) : cs[i] \in Digits

\* technique_id[1:5]: the characters at the (0-based) positions 1 to 4 that exist.
slice_1_5(cs) == SubSeq(cs, 2, IF Len(cs) < 5 THEN Len(cs) ELSE 5)

\* not technique_id.startswith('T') or not technique_id[1:5].isdigit()
invalid_technique_id(cs) == ~(cs # <<>> /\ cs[1] = "T") \/ ~isdigit(slice_1_5(cs))

\* The errors of the loop over rule['metadata'].get('mitre_attack', []), from
\* position i on.
RECURSIVE mitre_errors(_, _)
mitre_errors(rule, i) ==
    IF i > Len(rule.metadata.mitre_attack) THEN <<>>
    ELSE (IF invalid_technique_id(rule.metadata.mitre_attack[i])
          THEN <<(<<"Rule '", rule.name, "': Invalid MITRE ATT&CK ID: ">>
                  \o rule.metadata.mitre_attack[i])>>
          ELSE <<>>)
         \o mitre_errors(rule, i + 1)

\* The errors the body of "for idx, rule in enumerate(rules)" appends for one
\* rule: the condition's syntax (ast.parse, SyntaxError only), the technique
\* IDs, the severity, the action, in this order.
rule_errors(rule) ==
    (IF ast_parse(rule.condition).st = "err"
     THEN <<(<<"Rule '", rule.name, "': Invalid condition syntax: ", "invalid syntax">>)>>
     ELSE <<>>)
    \o mitre_errors(rule, 1)
    \o (IF rule.severity \notin valid_severities
        THEN <<(<<"Rule '", rule.name, "': Invalid severity: ", rule.severity>>)>>
        ELSE <<>>)
    \o (IF rule.action \notin valid_actions
        THEN <<(<<"Rule '", rule.name, "': Invalid action: ", rule.action>>)>>
        ELSE <<>>)

RECURSIVE semantic_errors(_, _)
semantic_errors(file_rules, i) ==
    IF i > Len(file_rules) THEN <<>>
    ELSE rule_errors(file_rules[i]) \o semantic_errors(file_rules, i + 1)

\* The (is_valid, errors) pair validate_rule_file returns for the file f.  A
\* YAML error's text names the stream it was read from, which is the file.
validate_rule_file(f) ==
    IF ~f.yaml_ok
    THEN [is_valid |-> FALSE,
          errors |-> <<(<<"YAML parsing error: ", "in ", f.name>>)>>]
    ELSE IF ~f.schema_ok
         THEN [is_valid |-> FALSE,
               errors |-> <<(<<"Schema validation failed: ", "e.message">>),
                            (<<"  Path: ", "e.path">>)>>]
         ELSE [is_valid |-> semantic_errors(f.rules, 1) = <<>>,
               errors |-> semantic_errors(f.rules, 1)]

\* A printed line: the stream, what main prints there (the first line of the
\* run, a file's line, one of its errors, the last line) and the text.
Line(stream, kind, text) == [stream |-> stream, kind |-> kind, text |-> text]

RECURSIVE error_lines(_, _)
error_lines(errors, i) ==
    IF i > Len(errors) THEN <<>>
    ELSE <<Line("stdout", "error", <<"  ">> \o errors[i])>> \o error_lines(errors, i + 1)

\* What main prints for a file after validate_rule_file returned r for it.
file_lines(f, r) ==
    IF r.is_valid
    THEN <<Line("stdout", "file", <<"ok ", f.name>>)>>
    ELSE <<Line("stdout", "file", <<"failed ", f.name>>)>> \o error_lines(r.errors, 1)

\* Mutant: all_valid is assigned the last file's result.
all_valid_last_file(valid_so_far, r) == r.is_valid

\* all_valid after the file whose result is r: set to False when the file is
\* not valid and left alone otherwise.
all_valid_after(valid_so_far, r) == IF r.is_valid THEN valid_so_far ELSE FALSE

\* The rule files of the model.
MaxFileRules == 2
FileNames == <<"access.yaml", "tokens.yaml">>
T1078 == <<"T", "1", "0", "7", "8">>
T1078_004 == <<"T", "1", "0", "7", "8", ".", "0", "0", "4">>
X1078 == <<"X", "1", "0", "7", "8">>
TA0001 == <<"T", "A", "0", "0", "0", "1">>
RuleVariants ==
    {YamlRule("R", CondIps.text, "high", "deny", <<T1078>>),
     YamlRule("R", CondBadSyntax.text, "high", "deny", <<T1078_004>>),
     YamlRule("R", CondAdd.text, "low", "notify", <<>>),
     YamlRule("R", CondIps.text, "urgent", "deny", <<T1078>>),
     YamlRule("R", CondBadSyntax.text, "high", "drop", <<X1078, T1078, TA0001>>)}
FileRuleLists == UNION {[1..m -> RuleVariants] : m \in 0..MaxFileRules}
Named(file_rules) == [i \in 1..Len(file_rules) |-> [file_rules[i] EXCEPT !.name = RuleNames[i]]]

InitValidator ==
    /\ EngineIdle
    /\ WorkersIdle
    /\ ServicesIdle
    /\ schema_loads \in BOOLEAN
    /\ \E n \in 0..Len(FileNames) :
          \E ys \in [1..n -> BOOLEAN], ss \in [1..n -> BOOLEAN], rs \in [1..n -> FileRuleLists] :
              /\ \A i \in 1..n : ~ys[i] => (ss[i] /\ rs[i] = <<>>)
              /\ rule_files = [i \in 1..n |-> RuleFile(FileNames[i], ys[i], ss[i], Named(rs[i]))]
    /\ schema_loads \/ Len(rule_files) <= 1
    /\ file_idx = 1
    /\ all_valid = TRUE
    /\ results = <<>>
    /\ printed = <<>>
    /\ exit_status = NoneV
    /\ v_pc = "start"

\* schema = load_schema(schema_path), and the exit when it fails.
LoadSchema ==
    /\ v_pc = "start"
    /\ IF schema_loads
       THEN /\ printed' = Append(printed, Line("stdout", "first", <<"Loaded schema from ", "schema.yaml">>))
            /\ v_pc' = "glob"
            /\ UNCHANGED exit_status
       ELSE /\ printed' = Append(printed, Line("stderr", "last", <<"Failed to load schema: ", "e">>))
            /\ exit_status' = IntV(1)
            /\ v_pc' = "exited"
    /\ UNCHANGED <<schema_loads, rule_files, file_idx, all_valid, results>>
    /\ UNCHANGED <<engine_vars, worker_vars, service_vars>>

\* rule_files = [...]; if not rule_files: ... sys.exit(0)
FindRuleFiles ==
    /\ v_pc = "glob"
    /\ IF rule_files = <<>>
       THEN /\ printed' = Append(printed, Line("stdout", "last", <<"No rule files found to validate">>))
            /\ exit_status' = IntV(0)
            /\ v_pc' = "exited"
       ELSE /\ printed' = Append(printed, Line("stdout", "first", <<"Validating rule file(s)">>))
            /\ v_pc' = "files"
            /\ UNCHANGED exit_status
    /\ UNCHANGED <<schema_loads, rule_files, file_idx, all_valid, results>>
    /\ UNCHANGED <<engine_vars, worker_vars, service_vars>>

\* One iteration of "for rule_file in rule_files".
ValidateFile ==
    /\ v_pc = "files"
    /\ file_idx <= Len(rule_files)
    /\ \E r \in {validate_rule_file(rule_files[file_idx])} :
          /\ results' = Append(results, r)
          /\ printed' = printed \o file_lines(rule_files[file_idx], r)
          /\ all_valid' = all_valid_after(all_valid, r)
    /\ file_idx' = file_idx + 1
    /\ UNCHANGED <<schema_loads, rule_files, exit_status, v_pc>>
    /\ UNCHANGED <<engine_vars, worker_vars, service_vars>>

\* The summary and sys.exit(0) or sys.exit(1).
Summary ==
    /\ v_pc = "files"
    /\ file_idx > Len(rule_files)
    /\ IF all_valid
       THEN /\ printed' = Append(printed, Line("stdout", "last", <<"All rule files are valid">>))
            /\ exit_status' = IntV(0)
       ELSE /\ printed' = Append(printed, Line("stderr", "last", <<"Validation failed - fix errors above">>))
            /\ exit_status' = IntV(1)
    /\ v_pc' = "exited"
    /\ UNCHANGED <<schema_loads, rule_files, file_idx, all_valid, results>>
    /\ UNCHANGED <<engine_vars, worker_vars, service_vars>>

NextValidator == LoadSchema \/ FindRuleFiles \/ ValidateFile \/ Summary

SpecValidator == InitValidator /\ [][NextValidator]_vars

(***************************************************************************)
(* The privacy layer, nhiti/privacy.py.                                    *)
(***************************************************************************)
\* dict.get(key, default)
get(d, key, default) == IF d[key] = Absent THEN default ELSE d[key]

\* hashlib.sha256(text.encode()).hexdigest(): a string that tells the texts
\* apart.
sha256_hexdigest(text) == StrV("sha256:" \o text)

\* The result of add_dp_noise(count): count plus Laplace noise, rounded and
\* not below 0; here no noise, noise of +1, and noise that takes it to 0.
NoisyCounts(count) == {0, count, count + 1}

\* anonymize_ioc(ioc) of a layer with threshold k, when add_dp_noise returns
\* noisy_count: None below the threshold, the anonymized dictionary otherwise.
anonymize_ioc(ioc, k, noisy_count) ==
    IF get(ioc, "contributing_orgs", IntV(0)).n < k
    THEN NoneV
    ELSE Ioc(Absent, Absent, IntV(noisy_count), get(ioc, "contributing_orgs", IntV(0)),
             sha256_hexdigest(get(ioc, "indicator_value", StrV("")).s))

\* "if anon:" - None is false, a dictionary with keys is true.
anon_is_true(anon) == anon # NoneV

\* The dictionary grouped after the first loop went over iocs[i..]: the
\* groups in insertion order, each with its key and its reports.
RECURSIVE group_by_hash(_, _, _)
group_by_hash(iocs, i, acc) ==
    IF i > Len(iocs) THEN acc
    ELSE IF \E j \in 1..Len(acc) :
                acc[j].key = sha256_hexdigest(get(iocs[i], "indicator_value", StrV("")).s)
         THEN group_by_hash(iocs, i + 1,
                  [j \in 1..Len(acc) |->
                      IF acc[j].key = sha256_hexdigest(get(iocs[i], "indicator_value", StrV("")).s)
                      THEN [acc[j] EXCEPT !.members = Append(@, iocs[i])]
                      ELSE acc[j]])
         ELSE group_by_hash(iocs, i + 1,
                  Append(acc, [key |-> sha256_hexdigest(get(iocs[i], "indicator_value", StrV("")).s),
                               members |-> <<iocs[i]>>]))

\* set(ioc.get('organization_id') for ioc in group): a report without the key
\* gives None, which is an element of the set like any other.
orgs_of(members) == {get(members[i], "organization_id", NoneV) : i \in 1..Len(members)}

\* sum(ioc.get('observation_count', 1) for ioc in group)
RECURSIVE total_observations(_, _)
total_observations(members, i) ==
    IF i > Len(members) THEN 0
    ELSE get(members[i], "observation_count", IntV(1)).n + total_observations(members, i + 1)

\* The dictionary aggregated that the second loop builds for a group: it has
\* no key indicator_value.
aggregated_of(g) ==
    Ioc(Absent, Absent, IntV(total_observations(g.members, 1)),
        IntV(Cardinality(orgs_of(g.members))), g.key)

\* The inputs of the model.
MaxReports == 3
OrgIds == {StrV("org1"), StrV("org2")}
IndicatorValues == {StrV("token_a"), StrV("token_b")}
Reports ==
    {Ioc(v, o, IntV(2), Absent, Absent) : v \in IndicatorValues, o \in OrgIds \cup {Absent}}
        \cup {EmptyIoc}
DirectIocs ==
    {Ioc(v, Absent, c, n, Absent) :
        v \in {Absent, StrV("token_a")}, c \in {Absent, IntV(2)},
        n \in {Absent} \cup {IntV(m) : m \in 0..MaxReports}}

InitPrivacy ==
    /\ EngineIdle
    /\ WorkersIdle
    /\ ValidatorIdle
    /\ AuditIdle
    /\ k_threshold \in 1..MaxReports
    /\ \E n \in 0..MaxReports : indicators \in [1..n -> Reports]
    /\ grouped = <<>>
    /\ group_idx = 1
    /\ anonymized = <<>>
    /\ built_from = <<>>
    /\ ioc_in = EmptyIoc
    /\ anon_out = NoneV
    /\ p_pc = "start"

\* A call anonymize_ioc(ioc) from outside.
AnonymizeIoc ==
    /\ p_pc = "start"
    /\ indicators = <<>>
    /\ \E ioc \in DirectIocs :
          /\ ioc_in' = ioc
          /\ \E noisy_count \in NoisyCounts(get(ioc, "observation_count", IntV(0)).n) :
                anon_out' = anonymize_ioc(ioc, k_threshold, noisy_count)
    /\ p_pc' = "anonymized"
    /\ UNCHANGED <<k_threshold, indicators, grouped, group_idx, anonymized, built_from>>
    /\ UNCHANGED <<engine_vars, worker_vars, validator_vars, audit_vars>>

\* aggregate_indicators(indicators): the first loop.
GroupIndicators ==
    /\ p_pc = "start"
    /\ grouped' = group_by_hash(indicators, 1, <<>>)
    /\ group_idx' = 1
    /\ p_pc' = "aggregate"
    /\ UNCHANGED <<k_threshold, indicators, anonymized, built_from, ioc_in, anon_out>>
    /\ UNCHANGED <<engine_vars, worker_vars, validator_vars, audit_vars>>

\* One iteration of "for indicator_hash, group in grouped.items()".
AggregateGroup ==
    /\ p_pc = "aggregate"
    /\ group_idx <= Len(grouped)
    /\ IF Cardinality(orgs_of(grouped[group_idx].members)) < k_threshold
       THEN UNCHANGED <<anonymized, built_from>>
       ELSE \E noisy_count \in NoisyCounts(total_observations(grouped[group_idx].members, 1)) :
               \E anon \in {anonymize_ioc(aggregated_of(grouped[group_idx]), k_threshold, noisy_count)} :
                   IF anon_is_true(anon)
                   THEN /\ anonymized' = Append(anonymized, anon)
                        /\ built_from' = Append(built_from, grouped[group_idx].key)
                   ELSE UNCHANGED <<anonymized, built_from>>
    /\ group_idx' = group_idx + 1
    /\ UNCHANGED <<k_threshold, indicators, grouped, ioc_in, anon_out, p_pc>>
    /\ UNCHANGED <<engine_vars, worker_vars, validator_vars, audit_vars>>

\* return anonymized
ReturnAnonymized ==
    /\ p_pc = "aggregate"
    /\ group_idx > Len(grouped)
    /\ p_pc' = "returned"
    /\ UNCHANGED <<k_threshold, indicators, grouped, group_idx, anonymized, built_from, ioc_in, anon_out>>
    /\ UNCHANGED <<engine_vars, worker_vars, validator_vars, audit_vars>>

NextPrivacy == AnonymizeIoc \/ GroupIndicators \/ AggregateGroup \/ ReturnAnonymized

SpecPrivacy == InitPrivacy /\ [][NextPrivacy]_vars

(***************************************************************************)
(* The audit logger, ml-service utils/audit.py.  A hash is a sequence of   *)
(* pieces that tells apart what was hashed.                                *)
(***************************************************************************)
\* The dictionary record of a call at time timestamp for entity_id, made
\* while the logger's previous_hash is prev; record_hash is added later.
AuditRecord(timestamp, entity_id, prev) ==
    [timestamp |-> timestamp, entity_id |-> entity_id, previous_hash |-> prev]

\* json.dumps(record, sort_keys=True)
json_dumps(record) ==
    <<"entity_id", record.entity_id, "previous_hash">> \o record.previous_hash
        \o <<"timestamp", record.timestamp>>

\* _calculate_hash(record) of a logger whose previous_hash is prev.
calculate_hash(prev, record) == <<"sha256">> \o prev \o json_dumps(record)

\* Where a call can end: json.dumps raises TypeError on metadata it cannot
\* serialize (before the file is opened), open raises, the write raises after
\* part of the line reached the file, or the line is written.
CallEnds == {"not_serializable", "open_failed", "write_failed", "written"}

\* What the call appends to the file.
log_file_after(file, record, current_hash, ends) ==
    CASE ends = "written" ->
            Append(file, [complete |-> TRUE, record |-> record, record_hash |-> current_hash])
      [] ends = "write_failed" ->
            Append(file, [complete |-> FALSE, record |-> record, record_hash |-> current_hash])
      [] OTHER -> file

\* Mutant: the chain is updated before the record is written.
previous_hash_before_write(prev, current_hash, ends) ==
    IF ends = "not_serializable" THEN prev ELSE current_hash

\* self.previous_hash after the call: the assignment follows the with block.
previous_hash_after(prev, current_hash, ends) ==
    IF ends = "written" THEN current_hash ELSE prev

\* The inputs of the model.
MaxLogCalls == 3
EntityIds == {"svc-a", "svc-b"}
Timestamps == {"t1", "t2"}

InitAudit ==
    /\ EngineIdle
    /\ WorkersIdle
    /\ ValidatorIdle
    /\ PrivacyIdle
    /\ AuditIdle

\* One call log_prediction(...), to its return or to the exception it raises.
LogPrediction ==
    /\ log_calls < MaxLogCalls
    /\ \E timestamp \in Timestamps, entity_id \in EntityIds, ends \in CallEnds :
          \E record \in {AuditRecord(timestamp, entity_id, previous_hash)} :
              \E current_hash \in {calculate_hash(previous_hash, record)} :
                  /\ log_file' = log_file_after(log_file, record, current_hash, ends)
                  /\ previous_hash' = previous_hash_after(previous_hash, current_hash, ends)
                  /\ last_call' = [status |-> IF ends = "written" THEN "returned" ELSE "raised",
                                   started_from |-> previous_hash]
    /\ log_calls' = log_calls + 1
    /\ UNCHANGED <<engine_vars, worker_vars, validator_vars, privacy_vars>>

NextAudit == LogPrediction

SpecAudit == InitAudit /\ [][NextAudit]_vars

(***************************************************************************)
(* Properties.                                                             *)
(***************************************************************************)
EightKinds == {"BoolOp", "Compare", "Call", "Name", "Constant", "List", "Set", "BinOp"}

RECURSIVE SubNodes(_)
SubNodes(node) == {node} \cup UNION {SubNodes(node.args[i]) : i \in 1..Len(node.args)}

\* A construct outside the eight node kinds and the seven registry functions.
OutsideWhitelist(node) ==
    \/ node.k \notin EightKinds
    \/ node.k = "BinOp" /\ node.ops[1] # "Sub"
    \/ node.k = "Call" /\ node.id \notin FUNCS

\* A well-formed condition built only from whitelisted constructs.
Whitelisted(e) ==
    /\ ParseTable[e].ok
    /\ \A nd \in SubNodes(ParseTable[e].body) :
          /\ ~OutsideWhitelist(nd)
          /\ nd.k = "BoolOp" => nd.ops[1] \in {"And", "Or"}
          /\ nd.k = "Compare" => Len(nd.ops) = 1 /\ nd.ops[1] \in allowed_ops

\* The condition's root expression evaluates, without failing, to a truthy value.
RootTruthy(e, ctx) ==
    /\ ParseTable[e].ok
    /\ visit(ParseTable[e].body, ctx).st = "ok"
    /\ Truthy(visit(ParseTable[e].body, ctx).val)

Returned(b) == outcome.st = "ok" /\ outcome.val = BoolV(b)

\* C1: eval_condition returns true for every well-formed whitelisted condition
\* whose root expression evaluates to a truthy value in the context.
C1_TruthyRootReturnsTrue ==
    (pc = "evaluated" /\ Whitelisted(cond_expr) /\ RootTruthy(cond_expr, event)) => Returned(TRUE)

\* The messages of the failures raised for a disallowed operation or bad syntax.
UnsupportedMessages ==
    {"Function not allowed", "Binary operation not allowed",
     "Comparison operator not allowed", "Boolean operation not allowed",
     "invalid syntax"}

\* C3: a condition holding a construct outside the whitelist never completes with
\* a boolean: it fails as an unsupported operation or as a syntax error.
C3_NonWhitelistedRejected ==
    (pc = "evaluated" /\ ParseTable[cond_expr].ok
        /\ \E nd \in SubNodes(ParseTable[cond_expr].body) : OutsideWhitelist(nd))
        => (outcome.st = "err" /\ outcome.msg \in UnsupportedMessages)

\* The names called by the calls of condition e.
CalleeNames(e) == {nd.id : nd \in {m \in SubNodes(ParseTable[e].body) : m.k = "Call"}}

\* C4: the only callables invoked during an evaluation are registry functions,
\* looked up in FUNCS by the literal name of a call of the condition; everything
\* else the evaluation touches is a lookup of a name in the supplied context.
C4_OnlyRegistryCalled ==
    pc = "evaluated" =>
        \A i \in 1..Len(outcome.log) :
            LET e == outcome.log[i]
            IN \/ e.ev = "lookup" /\ e.src = "context"
               \/ /\ e.ev = "invoke"
                  /\ e.src = "FUNCS"
                  /\ e.name \in FUNCS
                  /\ e.name \in CalleeNames(cond_expr)

\* C4 witness: "len(region) > 1" evaluated in a context that has an entry named
\* len; the registry's len was invoked.
C4_Witness ==
    /\ pc = "evaluated"
    /\ "len" \in DOMAIN event
    /\ "len" \in CalleeNames(cond_expr)
    /\ \E i \in 1..Len(outcome.log) : outcome.log[i] = Invoke("len", "FUNCS")

\* The root expression of the condition under evaluation and its operands.
Root == ParseTable[cond_expr].body
OperandOutcome(i) == visit(Root.args[i], event)
FailingOperands == {i \in 1..Len(Root.args) : OperandOutcome(i).st = "err"}
FirstFailing == CHOOSE i \in FailingOperands : \A j \in FailingOperands : i <= j

RECURSIVE OperandLogs(_)
OperandLogs(n) == IF n = 0 THEN <<>> ELSE OperandLogs(n - 1) \o OperandOutcome(n).log

\* C10: a boolean operation evaluates every operand, in order, before combining
\* them: the first failing operand's error is raised whatever the operands
\* before it gave, and with no failing operand the result is the AND (the OR)
\* of the operands' truth values, all operands having been evaluated.
C10_BoolOpEvaluatesEveryOperand ==
    (pc = "evaluated" /\ ParseTable[cond_expr].ok /\ Root.k = "BoolOp") =>
        LET r == visit(Root, event)
            n == Len(Root.args)
        IN IF FailingOperands = {}
           THEN /\ r.st = "ok"
                /\ r.val = BoolV(IF Root.ops[1] = "And"
                                 THEN \A i \in 1..n : Truthy(OperandOutcome(i).val)
                                 ELSE \E i \in 1..n : Truthy(OperandOutcome(i).val))
                /\ r.log = OperandLogs(n)
                /\ outcome.st = "ok"
                /\ outcome.log = OperandLogs(n)
           ELSE /\ r.st = "err"
                /\ r.exc = OperandOutcome(FirstFailing).exc
                /\ r.msg = OperandOutcome(FirstFailing).msg
                /\ r.log = OperandLogs(FirstFailing)
                /\ outcome.st = "err"
                /\ outcome.msg = OperandOutcome(FirstFailing).msg

\* C10 witness: "True or z > 1" was evaluated and failed on the unknown z, and
\* "False and z > 1" likewise.
C10_Witness ==
    /\ pc = "evaluated"
    /\ Root \in {BoolOp("Or", <<True, ZGt1>>), BoolOp("And", <<False, ZGt1>>)}
    /\ outcome.st = "err"
    /\ outcome.msg = "Unknown variable"

(***************************************************************************)
(* Properties of evaluate_rules.                                           *)
(***************************************************************************)
Positions == 1..Len(rules)
HitPositions == Range(hit_idx)

RECURSIVE EnabledUpTo(_)
EnabledUpTo(n) ==
    IF n = 0 THEN <<>>
    ELSE IF rules[n].enabled THEN Append(EnabledUpTo(n - 1), n) ELSE EnabledUpTo(n - 1)

\* The rule at position i is enabled and its condition evaluates to a true value.
Matches(i) == rules[i].enabled /\ RootTruthy(rules[i].condition, event)

\* The rule at position i is enabled and its condition fails to parse or evaluate.
Fails(i) == rules[i].enabled /\ eval_condition(rules[i].condition, event).st = "err"

\* C2: a rule yields a hit iff it is enabled and its condition evaluates to
\* true, and the hit carries the rule's name, description, severity, action and
\* metadata.
C2_HitIffEnabledAndTrue ==
    pc = "done" =>
        \A i \in Positions :
            /\ (i \in HitPositions) <=> Matches(i)
            /\ \A k \in 1..Len(hits) :
                  hit_idx[k] = i =>
                      /\ hits[k].rule = rules[i].name
                      /\ hits[k].description = rules[i].description
                      /\ hits[k].severity = rules[i].severity
                      /\ hits[k].action = rules[i].action
                      /\ hits[k].metadata = rules[i].metadata

\* The hits evaluate_rules returns for the rule list rs.
RECURSIVE HitsOf(_, _)
HitsOf(rs, ev) ==
    IF rs = <<>> THEN <<>>
    ELSE evaluate_rules_step(Head(rs), ev).hit \o HitsOf(Tail(rs), ev)

RECURSIVE WithoutFailing(_, _)
WithoutFailing(rs, ev) ==
    IF rs = <<>> THEN <<>>
    ELSE IF Head(rs).enabled /\ eval_condition(Head(rs).condition, ev).st = "err"
         THEN WithoutFailing(Tail(rs), ev)
         ELSE <<Head(rs)>> \o WithoutFailing(Tail(rs), ev)

\* C5: with some enabled rules failing, the hits returned are those of the list
\* without the failing rules, and every valid, matching rule has its hit.
C5_FailingRulesIsolated ==
    (pc \in {"done", "raised"} /\ \E i \in Positions : Fails(i)) =>
        /\ pc = "done"
        /\ hits = HitsOf(WithoutFailing(rules, event), event)
        /\ \A i \in Positions : Matches(i) => i \in HitPositions

\* C6: no rule failure leaves evaluate_rules: it returns, and every enabled rule,
\* also one after a failing rule, has been evaluated.
C6_FailureNeverPropagates ==
    /\ pc # "raised"
    /\ pc = "done" => evaluated = EnabledUpTo(Len(rules))
    /\ \A i \in Positions : (i < idx /\ Fails(i)) => i \in Range(reported)

\* C6 witness: evaluate_rules returned after a failing rule was followed by an
\* enabled rule, which was evaluated.
C6_Witness ==
    /\ pc = "done"
    /\ \E i, j \in Positions :
          /\ i < j
          /\ Fails(i)
          /\ i \in Range(reported)
          /\ rules[j].enabled
          /\ j \in Range(evaluated)

\* C7: a disabled rule never reaches eval_condition and gives neither a hit
\* nor a reported error, whatever its condition.
C7_DisabledNeverEvaluated ==
    \A i \in Positions :
        ~rules[i].enabled =>
            /\ i \notin Range(evaluated)
            /\ i \notin HitPositions
            /\ i \notin Range(reported)

\* C7 witness: evaluate_rules returned on a list with a disabled rule whose
\* condition is unparseable and a disabled rule whose condition names an
\* unknown variable.
C7_Witness ==
    /\ pc = "done"
    /\ \E i, j \in Positions :
          /\ ~rules[i].enabled
          /\ rules[i].condition = CondBadSyntax.text
          /\ ~rules[j].enabled
          /\ rules[j].condition = CondZ.text

UnregisteredCalls == {nd \in SubNodes(Root) : nd.k = "Call" /\ nd.id \notin FUNCS}

\* C11: a call to a name outside the registry (or through a callee that is not
\* a plain name) fails as "Function not allowed" before any of its arguments is
\* evaluated: nothing is looked up or invoked for it, and when the call is what
\* the evaluation reaches first, that failure is the one eval_condition reports.
C11_UnregisteredCallRejectedFirst ==
    (pc = "evaluated" /\ ParseTable[cond_expr].ok) =>
        /\ \A nd \in UnregisteredCalls :
              visit(nd, event) = Raise("ValueError", "Function not allowed", <<>>)
        /\ Root \in UnregisteredCalls =>
              /\ outcome.st = "err"
              /\ outcome.msg = "Function not allowed"
              /\ outcome.log = <<>>
        /\ (Root.k = "BoolOp" /\ FailingOperands # {}
                /\ Root.args[FirstFailing] \in UnregisteredCalls) =>
              /\ outcome.st = "err"
              /\ outcome.msg = "Function not allowed"
              /\ outcome.log = OperandLogs(FirstFailing - 1)

\* C11 witness: "foo(z)" was evaluated in a context without z and failed as a
\* disallowed function.
C11_Witness ==
    /\ pc = "evaluated"
    /\ Root = Call("foo", <<Name("z")>>)
    /\ "z" \notin DOMAIN event
    /\ outcome.st = "err"
    /\ outcome.msg = "Function not allowed"

\* The binary operations of the condition under evaluation whose operator is
\* not '-'.
DisallowedBinOps == {nd \in SubNodes(Root) : nd.k = "BinOp" /\ nd.ops[1] # "Sub"}

UnsupportedOperationMessages ==
    {"Function not allowed", "Binary operation not allowed",
     "Comparison operator not allowed", "Boolean operation not allowed"}

\* The outcome o is an unsupported-operation failure.
Unsupported(o) == o.st = "err" /\ o.msg \in UnsupportedOperationMessages

C14_MalformedRaisesSyntaxError ==
    (pc = "evaluated" /\ ~ParseTable[cond_expr].ok) =>
        /\ outcome.st = "err"
        /\ outcome.exc = "SyntaxError"
        /\ outcome.exc # eval_condition(CondAdd.text, event).exc

\* The variable references of the condition under evaluation.
NameNodes == {nd \in SubNodes(Root) : nd.k = "Name"}

\* C15: a variable reference evaluates to the value the context binds to its
\* name and fails as "Unknown variable" when the context has no such name, also
\* for a name the registry knows (len): a comparison of a bound name reads the
\* bound value, every lookup but a failing last one is of a bound name, and an
\* unknown-variable failure is that of the last lookup.
C15_NameReadsContextOnly ==
    (pc = "evaluated" /\ ParseTable[cond_expr].ok) =>
        /\ \A nd \in NameNodes :
              IF nd.id \in DOMAIN event
              THEN visit(nd, event) = Ok(event[nd.id], <<Lookup(nd.id)>>)
              ELSE visit(nd, event) = Raise("ValueError", "Unknown variable", <<Lookup(nd.id)>>)
        /\ (Root.k = "Compare" /\ Len(Root.ops) = 1 /\ Root.ops[1] \in allowed_ops
                /\ Root.args[1].k = "Name" /\ Root.args[2].k = "Constant") =>
              IF Root.args[1].id \in DOMAIN event
              THEN visit(Root, event) =
                       CompareOp(Root.ops[1], event[Root.args[1].id], Root.args[2].val,
                                 <<Lookup(Root.args[1].id)>>)
              ELSE outcome.st = "err" /\ outcome.msg = "Unknown variable"
        /\ \A i \in 1..Len(outcome.log) :
              outcome.log[i].ev = "lookup" =>
                  /\ outcome.log[i].src = "context"
                  /\ \/ outcome.log[i].name \in DOMAIN event
                     \/ i = Len(outcome.log) /\ outcome.msg = "Unknown variable"
        /\ outcome.msg = "Unknown variable" =>
              /\ outcome.st = "err"
              /\ outcome.log # <<>>
              /\ outcome.log[Len(outcome.log)].ev = "lookup"
              /\ outcome.log[Len(outcome.log)].name \notin DOMAIN event

\* C15 witness: "unique_ips > 5 and z > 1" was evaluated where unique_ips is 7
\* and z is absent: the first comparison read 7, the second failed on z.
C15_Witness ==
    /\ pc = "evaluated"
    /\ Root = BoolOp("And", <<IpsGt5, ZGt1>>)
    /\ "unique_ips" \in DOMAIN event
    /\ event["unique_ips"] = IntV(7)
    /\ visit(IpsGt5, event).val = BoolV(TRUE)
    /\ outcome.msg = "Unknown variable"
    /\ outcome.log = <<Lookup("unique_ips"), Lookup("z")>>

\* Scalars, and the pairs of scalars Python orders: two numbers, or two strings.
Scalar(v) == v.t \in {"none", "bool", "int", "float", "str"}
Comparable(a, b) == (IsNumber(a) /\ IsNumber(b)) \/ (a.t = "str" /\ b.t = "str")

\* a < b and a == b on scalars: numbers by value, strings by code points.
Less(a, b) ==
    IF IsNumber(a) THEN a.n * b.d < b.n * a.d ELSE StrRank(a.s) < StrRank(b.s)
Same(a, b) ==
    \/ IsNumber(a) /\ IsNumber(b) /\ a.n * b.d = b.n * a.d
    \/ a.t = "str" /\ b.t = "str" /\ a.s = b.s
    \/ a.t = "none" /\ b.t = "none"

\* The truth of "a op b" for the six operators.
Written(op, a, b) ==
    CASE op = "Gt" -> Less(b, a)
      [] op = "GtE" -> Less(b, a) \/ Same(a, b)
      [] op = "Lt" -> Less(a, b)
      [] op = "LtE" -> Less(a, b) \/ Same(a, b)
      [] op = "Eq" -> Same(a, b)
      [] op = "NotEq" -> ~Same(a, b)

\* C16: a comparison "L op R" evaluates both sides; with one of the six
\* operators it gives the truth of the written comparison, an ordering of a
\* number with a string (or None) fails as a type error, and any other
\* operator (in, not in, is, is not) is rejected.
C16_CompareAppliesWrittenOperator ==
    (pc = "evaluated" /\ ParseTable[cond_expr].ok /\ Root.k = "Compare" /\ Len(Root.ops) = 1) =>
        IF FailingOperands # {}
        THEN /\ outcome.st = "err"
             /\ outcome.msg = OperandOutcome(FirstFailing).msg
        ELSE LET a == OperandOutcome(1).val
                 b == OperandOutcome(2).val
                 op == Root.ops[1]
                 r == visit(Root, event)
             IN /\ r.log = OperandLogs(2)
                /\ outcome.log = OperandLogs(2)
                /\ (Scalar(a) /\ Scalar(b)) =>
                      IF op \notin allowed_ops
                      THEN /\ r.st = "err"
                           /\ outcome.st = "err"
                           /\ outcome.msg = "Comparison operator not allowed"
                      ELSE IF op \in {"Eq", "NotEq"} \/ Comparable(a, b)
                           THEN /\ r.st = "ok"
                                /\ r.val = BoolV(Written(op, a, b))
                                /\ outcome.st = "ok"
                           ELSE /\ r.st = "err"
                                /\ r.exc = "TypeError"
                                /\ outcome.st = "err"
                                /\ outcome.msg = "not supported between instances"

\* C16 witness: "unique_ips >= 'EU'" was evaluated where unique_ips is a number:
\* both sides were evaluated and the ordering failed as a type error.
C16_Witness ==
    /\ pc = "evaluated"
    /\ Root = Compare(Name("unique_ips"), <<"GtE">>, <<Str("EU")>>)
    /\ "unique_ips" \in DOMAIN event
    /\ outcome.st = "err"
    /\ outcome.msg = "not supported between instances"
    /\ outcome.log = <<Lookup("unique_ips")>>

\* A collection of scalars (a list, a set or a string) and its elements, equal
\* numbers (1, True) counting as one element.
Collection(v) ==
    \/ v.t = "str"
    \/ v.t = "set"
    \/ v.t = "list" /\ \A i \in 1..Len(v.items) : Scalar(v.items[i])
Elements(v) ==
    CASE v.t = "list" -> {HashKey(v.items[i]) : i \in 1..Len(v.items)}
      [] v.t = "set" -> v.elems
      [] v.t = "str" -> {StrV(Chars(v.s)[i]) : i \in 1..Len(Chars(v.s))}

\* C17: "L - R" evaluates both operands and, for two collections, gives the
\* set of the elements of L that are not elements of R; for operands that
\* cannot be made sets (numbers, None) it fails with a type error and never
\* subtracts arithmetically.
C17_SubIsSetDifference ==
    (pc = "evaluated" /\ ParseTable[cond_expr].ok /\ Root.k = "BinOp" /\ Root.ops[1] = "Sub") =>
        IF FailingOperands # {}
        THEN /\ outcome.st = "err"
             /\ outcome.msg = OperandOutcome(FirstFailing).msg
        ELSE LET a == OperandOutcome(1).val
                 b == OperandOutcome(2).val
                 r == visit(Root, event)
             IN /\ r.log = OperandLogs(2)
                /\ outcome.log = OperandLogs(2)
                /\ IF Collection(a) /\ Collection(b)
                   THEN /\ r.st = "ok"
                        /\ r.val.t = "set"
                        /\ r.val.elems = {e \in Elements(a) : e \notin Elements(b)}
                        /\ outcome.st = "ok"
                   ELSE /\ r.st = "err"
                        /\ r.exc = "TypeError"
                        /\ outcome.st = "err"
                        /\ outcome.msg \in {"object is not iterable", "unhashable type"}

\* C17 witness: "[region, 'EU'] - ['EU']" was evaluated where region is 'US' and
\* gave the set {'US'}.
C17_Witness ==
    /\ pc = "evaluated"
    /\ Root = BinOp(List(<<Name("region"), Str("EU")>>), "Sub", List(<<Str("EU")>>))
    /\ "region" \in DOMAIN event
    /\ event["region"] = StrV("US")
    /\ visit(Root, event).val = SetV({StrV("US")})
    /\ outcome.st = "ok"

C19_InSetAndItsNegation ==
    (pc = "called" /\ func_name \in {"in_set", "not_in_set"} /\ Len(fn_args) = 2) =>
        /\ (Scalar(fn_args[1]) /\ Collection(fn_args[2])) =>
              /\ outcome.st = "ok"
              /\ outcome.val = BoolV((func_name = "in_set") <=>
                                     (HashKey(fn_args[1]) \in Elements(fn_args[2])))
        /\ func_name = "not_in_set" =>
              /\ outcome.st = in_set(fn_args).st
              /\ outcome.exc = in_set(fn_args).exc
              /\ outcome.st = "ok" =>
                    /\ outcome.val.t = "bool"
                    /\ in_set(fn_args).val.t = "bool"
                    /\ Truthy(outcome.val) = ~Truthy(in_set(fn_args).val)

\* C19 witness: not_in_set('EU', 'EU') was called and returned True: the set of
\* the string 'EU' holds its characters, not the string.
C19_Witness ==
    /\ pc = "called"
    /\ func_name = "not_in_set"
    /\ fn_args = <<StrV("EU"), StrV("EU")>>
    /\ outcome.st = "ok"
    /\ outcome.val = BoolV(TRUE)
    /\ in_set(fn_args).val = BoolV(FALSE)

EvaluatedAlone(rs, ev) ==
    SelectSeq([i \in 1..Len(rs) |-> i], LAMBDA i : evaluate_rules_step(rs[i], ev).called)
ReportedAlone(rs, ev) ==
    SelectSeq([i \in 1..Len(rs) |-> i], LAMBDA i : evaluate_rules_step(rs[i], ev).reported)

C23_EvaluationIsTotal ==
    /\ <>(pc \in {"done", "evaluated"})
    /\ [](pc = "evaluated" =>
             \/ outcome.st = "ok" /\ outcome.val.t = "bool"
             \/ outcome.st = "err")
    /\ [](pc = "done" =>
             /\ idx = Len(rules) + 1
             /\ \A i \in 1..Len(rules) :
                   Cardinality({k \in 1..Len(evaluated) : evaluated[k] = i})
                       = IF rules[i].enabled THEN 1 ELSE 0)
    /\ [][pc = "loop" => \/ pc' = "loop" /\ idx' = idx + 1 /\ idx <= Len(rules)
                         \/ pc' = "done" /\ idx' = idx]_vars

\* C23 witness: evaluate_rules returned from a list of two rules whose first
\* rule failed and whose second was evaluated.
C23_Witness ==
    /\ pc = "done"
    /\ Len(rules) = 2
    /\ reported = <<1>>
    /\ evaluated = <<1, 2>>

(***************************************************************************)
(* Properties of the rule validator.                                       *)
(***************************************************************************)
\* C24 (as stated): every condition of a file the validator reports as valid
\* is one that eval_condition rejects as an unsupported operation in no
\* context.
C24_ValidatorRejectsNonWhitelisted ==
    \A i \in 1..Len(results) :
        results[i].is_valid =>
            \A k \in 1..Len(rule_files[i].rules) : \A c \in Contexts :
                ~Unsupported(eval_condition_on[rule_files[i].rules[k].condition, c])

\* The errors present in the file f: the schema violation, and what is wrong
\* with the conditions, technique IDs, severities and actions of its rules.
SchemaViolationReported(errors) ==
    \E k \in 1..Len(errors) : errors[k][1] = "Schema validation failed: "
RuleProblems(f) == Range(semantic_errors(f.rules, 1))

\* C25 (as stated): the error list of a validated file holds every error
\* present in the file, the schema violation together with the problems of
\* its rules; and once main has gone over the files, every file has a result
\* and a printed line.
C25_EveryErrorReported ==
    /\ \A i \in 1..Len(results) :
          rule_files[i].yaml_ok =>
              /\ ~rule_files[i].schema_ok => SchemaViolationReported(results[i].errors)
              /\ RuleProblems(rule_files[i]) \subseteq Range(results[i].errors)
    /\ (v_pc = "exited" /\ schema_loads) =>
          /\ Len(results) = Len(rule_files)
          /\ \A i \in 1..Len(rule_files) :
                \E k \in 1..Len(printed) :
                    printed[k].kind = "file" /\ printed[k].text[2] = rule_files[i].name

\* The positions of the printed lines that are a file's line, in order.
FileLineIndexes == SelectSeq([k \in 1..Len(printed) |-> k], LAMBDA k : printed[k].kind = "file")

\* The number of file lines among the first k printed lines.
FileLinesUpTo(k) == Cardinality({j \in 1..k : printed[j].kind = "file"})

ReportingOrganizations(key) ==
    {indicators[i].organization_id :
        i \in {j \in 1..Len(indicators) :
                  /\ sha256_hexdigest(get(indicators[j], "indicator_value", StrV("")).s) = key
                  /\ indicators[j].organization_id # Absent}}

\* C27 (as stated): anonymize_ioc returns None for an indicator whose
\* contributing_orgs is below k_threshold, and every indicator that
\* aggregate_indicators returns has contributing_orgs >= k_threshold and was
\* reported under at least k_threshold distinct organization_id values.
C27_KAnonymity ==
    /\ (p_pc = "anonymized" /\ get(ioc_in, "contributing_orgs", IntV(0)).n < k_threshold)
          => anon_out = NoneV
    /\ \A i \in 1..Len(anonymized) :
          /\ anonymized[i].contributing_orgs.n >= k_threshold
          /\ Cardinality(ReportingOrganizations(built_from[i])) >= k_threshold

(***************************************************************************)
(* Properties of comparison chains.                                        *)
(***************************************************************************)
\* The conjunction of the pairwise comparisons of the chain at the root, from
\* the i-th operator on.
RECURSIVE ChainHolds(_)
ChainHolds(i) ==
    IF i > Len(Root.ops) THEN TRUE
    ELSE Written(Root.ops[i], OperandOutcome(i).val, OperandOutcome(i + 1).val)
            /\ ChainHolds(i + 1)

\* C28 (as stated): a comparison with more than one operator, all of them of
\* the six allowed ones, either fails or evaluates to the conjunction of its
\* pairwise comparisons.
C28_ChainIsRejectedOrConjunction ==
    (/\ pc = "evaluated"
     /\ ParseTable[cond_expr].ok
     /\ Root.k = "Compare"
     /\ Len(Root.ops) > 1
     /\ \A i \in 1..Len(Root.ops) : Root.ops[i] \in allowed_ops) =>
        \/ visit(Root, event).st = "err"
        \/ visit(Root, event).val = BoolV(ChainHolds(1))

WrittenRecords == SelectSeq(log_file, LAMBDA e : e.complete)

====
